---- MODULE Spec2Model ----
(***************************************************************************)
(* Incremental session-processing pipeline of phm-platform:                *)
(*   data-collection/etl/bronze_to_silver.py   (Bronze Loader)             *)
(*   data-collection/etl/frames_to_features.py (Feature Extractor)         *)
(* The relational tables (session, raw.vibration_frame,                    *)
(* mart.vibration_frame_features) and the object storage are the state;    *)
(* one action per batch prelude (main up to the loop), one per loop        *)
(* iteration (process_one_session inside try/except), and the external     *)
(* writers of the session table and of the object storage.                 *)
(***************************************************************************)
EXTENDS Integers, Sequences, FiniteSets, TLC

VARIABLES
    session,    \* table session: id -> row
    raw,        \* table raw.vibration_frame: set of rows
    mart,       \* table mart.vibration_frame_features: set of rows
    objstore,   \* object storage: id -> set of objects under the session's prefix
    phase,      \* which main() is running: "idle", "bronze" or "feature"
    queue,      \* sessions_df rows of the running main() not yet iterated
    hist,       \* history: id -> how far the session is in an observed scenario
    clean,      \* history: no iteration of the running main() has raised so far
    start,      \* history: id -> the stage's marker when the running main() began
    arg,        \* the argument of a function called on its own
    ret,        \* its result, once it returned
    pc,         \* read_jsonl_from_minio: the statement to run, the exception in flight
    resp,       \* read_jsonl_from_minio: the response of the last get_object
    pending     \* the object names the loop of process_one_session has yet to read

vars == <<session, raw, mart, objstore, phase, queue, hist, clean, start, arg, ret,
          pc, resp, pending>>

----------------------------------------------------------------------------
(* Bounds *)

ChunkSize == 1     \* frames per chunk of iter_frames_for_session (500 in the
                   \* source, scaled to the number of frames of a session here)

\* The ids of the rows of table session.
SIDs == {1, 2}

Null == "NULL"

----------------------------------------------------------------------------
(* Generic helpers *)

Min(S) == CHOOSE x \in S : \A y \in S : x <= y

RECURSIVE SortedSeq(_)
\* The elements of a finite set of integers in ascending order.
SortedSeq(S) ==
    IF S = {} THEN <<>> ELSE <<Min(S)>> \o SortedSeq(S \ {Min(S)})

Range(q) == {q[i] : i \in 1..Len(q)}

Take(q, n) == SubSeq(q, 1, IF n < Len(q) THEN n ELSE Len(q))

Drop(q, n) == SubSeq(q, (IF n < Len(q) THEN n ELSE Len(q)) + 1, Len(q))

\* NOW(): timestamps are abstracted to one value, so that a marker is either
\* NULL or set.
Now == "ts"

----------------------------------------------------------------------------
(* Object storage contents *)

\* A sample is a double k * Tiny^e, written <<k, e>>: an integer k (e = 0),
\* or k times Tiny (e = 1), where Tiny is a positive double so small that
\* its square underflows to 0.0 and that a sum with a nonzero integer
\* absorbs it.
S(k) == <<k, 0>>

T(k) == <<k, 1>>

\* Python's None (SQL NULL in a column of numbers or arrays).
None == [is_none |-> TRUE]

\* A Python list of samples.
List(items) == [is_none |-> FALSE, items |-> items]

\* The sample arrays ax, ay, az of a record whose content is v.
SamplesOf(v) ==
    IF v = "a"
    THEN [ax |-> List(<<S(3), S(-4)>>), ay |-> List(<<S(0), S(0)>>), az |-> List(<<S(1)>>)]
    ELSE [ax |-> List(<<S(1)>>), ay |-> List(<<>>), az |-> List(<<S(-4), S(3)>>)]

\* A JSONL record: seq, t0 and the three sample arrays.
Frame(n, v) ==
    [seq |-> n, t0 |-> v,
     ax |-> SamplesOf(v).ax, ay |-> SamplesOf(v).ay, az |-> SamplesOf(v).az]

\* A JSONL object as pd.read_json returns it: has_seq_t0 tells whether the
\* columns seq and t0 are present, records holds the lines.
Obj(name, cols, recs) == [object_name |-> name, has_seq_t0 |-> cols, records |-> recs]

\* Two good objects of one frame each.
TwoGood ==
    { Obj(1, TRUE, <<Frame(1, "a")>>), Obj(2, TRUE, <<Frame(2, "a")>>) }

\* An empty object, then one with other data.
EmptyThenNew ==
    { Obj(1, FALSE, <<>>), Obj(2, TRUE, <<Frame(3, "b")>>) }

\* A good object, then one whose records lack seq and t0.
SecondBad ==
    { Obj(1, TRUE, <<Frame(1, "a")>>), Obj(2, FALSE, <<Frame(0, "a")>>) }

\* One object without a record.
OnlyEmpty == { Obj(1, FALSE, <<>>) }

\* An object whose records lack seq and t0, then a good one.
BadThenGood ==
    { Obj(1, FALSE, <<Frame(0, "a")>>), Obj(2, TRUE, <<Frame(2, "a")>>) }

\* Two objects that both hold a frame with seq 1.
DupAcross ==
    { Obj(1, TRUE, <<Frame(1, "a")>>), Obj(2, TRUE, <<Frame(1, "b")>>) }

\* A good object, then one that holds two frames with seq 2.
DupWithin ==
    { Obj(1, TRUE, <<Frame(1, "a")>>), Obj(2, TRUE, <<Frame(2, "a"), Frame(2, "b")>>) }

\* Two objects of three frames each.
TwoOfThree ==
    { Obj(1, TRUE, <<Frame(1, "a"), Frame(2, "a"), Frame(3, "a")>>),
      Obj(2, TRUE, <<Frame(4, "a"), Frame(5, "a"), Frame(6, "a")>>) }

\* What the recorder may put under the prefix of session s (nothing is
\* there before its first upload).
Layouts(s) ==
    IF s = 1 THEN {OnlyEmpty, TwoGood, EmptyThenNew, SecondBad} ELSE {EmptyThenNew}

\* The same with recordings that repeat a sequence number, a long one, and
\* one that starts with a malformed object; nothing is ever uploaded for the
\* other session.
WideLayouts(s) ==
    IF s = 1 THEN {OnlyEmpty, DupAcross, DupWithin, TwoOfThree, BadThenGood} ELSE {}

MaxObjects == 2    \* objects under one prefix

MaxFrames == 6     \* frames of one session

\* Upper bound of the store / object-storage calls of one process_one_session:
\* delete, list, a read and an INSERT per object, the marker UPDATE in
\* bronze_to_silver.py; delete, the query, an INSERT per chunk, the marker
\* UPDATE in frames_to_features.py.
MaxCalls == 2 * MaxObjects + MaxFrames + 3

\* The number of calls that succeed before a connection error; an iteration
\* that makes no more calls than that sees no failure.
Budgets == 0..MaxCalls

\* The values of session.raw_file_path.
Locations == {Null, "s3://phm/M001/rec_000001.jsonl", "http://phm/M001/rec_000001.jsonl"}

\* urlparse(url).scheme over Locations.
Scheme(url) == IF url = "s3://phm/M001/rec_000001.jsonl" THEN "s3" ELSE "http"

----------------------------------------------------------------------------
(* bronze_to_silver.py *)

\* Variant: no test of the scheme.
parse_any_url(url) == TRUE

\* parse_s3_url: TRUE when the url is accepted, FALSE when ValueError is raised.
parse_s3_url(url) == Scheme(url) = "s3"

\* A key is the sequence of its characters.
Digits == {"0", "1"}

\* The position of the "_" at which ^(.*)_\d{6}\.[^.]+$ matches the key, 0
\* when it does not match: "." of (.*) matches no newline, six digits and a
\* "." follow the "_", and at least one character and no "." follows them.
PrefixMatch(key) ==
    LET ok(i) == /\ key[i] = "_"
                 /\ Len(key) >= i + 8
                 /\ \A j \in 1..(i - 1) : key[j] # "\n"
                 /\ \A j \in (i + 1)..(i + 6) : key[j] \in Digits
                 /\ key[i + 7] = "."
                 /\ \A j \in (i + 8)..Len(key) : key[j] # "."
        hits == {i \in 1..Len(key) : ok(i)}
    IN  IF hits = {} THEN 0 ELSE CHOOSE i \in hits : \A j \in hits : j <= i

\* key.rsplit("/", 1)[0]: the key up to its last "/", the whole key when it
\* has none.
RSplitHead(key) ==
    LET slashes == {i \in 1..Len(key) : key[i] = "/"}
    IN  IF slashes = {} THEN key
        ELSE SubSeq(key, 1, (CHOOSE i \in slashes : \A j \in slashes : j <= i) - 1)

\* derive_session_prefix_from_key.
derive_session_prefix_from_key(key) ==
    IF PrefixMatch(key) = 0 THEN RSplitHead(key) \o <<"/">>
    ELSE SubSeq(key, 1, PrefixMatch(key))

\* The code point of a character of an object name.
CodePoint(c) ==
    CASE c = "." -> 46 [] c = "/" -> 47 [] c = "0" -> 48 [] c = "1" -> 49
      [] c = "_" -> 95 [] c = "d" -> 100 [] c = "e" -> 101 [] c = "j" -> 106
      [] c = "l" -> 108 [] c = "n" -> 110 [] c = "o" -> 111 [] c = "s" -> 115

RECURSIVE StrLess(_, _)
\* a < b for Python strings: the order of the first differing code point,
\* a proper prefix first.
StrLess(a, b) ==
    IF b = <<>> THEN FALSE
    ELSE IF a = <<>> THEN TRUE
    ELSE IF Head(a) = Head(b) THEN StrLess(Tail(a), Tail(b))
    ELSE CodePoint(Head(a)) < CodePoint(Head(b))

RECURSIVE sorted(_)
\* sorted(object_names)
sorted(names) ==
    IF names = {} THEN <<>>
    ELSE LET m == CHOOSE x \in names : \A y \in names \ {x} : StrLess(x, y)
         IN  <<m>> \o sorted(names \ {m})

\* name.startswith(prefix)
startswith(name, prefix) ==
    Len(name) >= Len(prefix) /\ SubSeq(name, 1, Len(prefix)) = prefix

\* name.endswith(".jsonl")
endswith_jsonl(name) ==
    /\ Len(name) >= 6
    /\ SubSeq(name, Len(name) - 5, Len(name)) = <<".", "j", "s", "o", "n", "l">>

\* Variant: a listing with recursive=True.
list_objects_recursive(bucket, prefix) ==
    {name \in bucket : startswith(name, prefix)}

\* client.list_objects(bucket, prefix=prefix, recursive=False): the objects
\* whose name has the prefix and no "/" after it, and one entry, ending with
\* its first "/", for the names that have one after the prefix.
list_objects(bucket, prefix) ==
    LET under == {name \in bucket : startswith(name, prefix)}
        cut(name) ==
            IF \E i \in (Len(prefix) + 1)..Len(name) : name[i] = "/"
            THEN SubSeq(name, 1, CHOOSE i \in (Len(prefix) + 1)..Len(name) :
                                    /\ name[i] = "/"
                                    /\ \A j \in (Len(prefix) + 1)..(i - 1) : name[j] # "/")
            ELSE name
    IN  {cut(name) : name \in under}

\* list_session_objects on a bucket: the listed names that end with ".jsonl".
list_session_objects_in(bucket, prefix) ==
    {name \in list_objects(bucket, prefix) : endswith_jsonl(name)}

\* list_session_objects: the names of the objects under the prefix.
list_session_objects(objs) == {o.object_name : o \in objs}

\* read_jsonl_from_minio: the object's DataFrame.
read_jsonl_from_minio(objs, name) == CHOOSE o \in objs : o.object_name = name

\* Variant: a backfill that updates no row.
sync_bronze_skipped(sess, frames) == sess

\* Variant: a backfill without its join on raw.vibration_frame.
sync_bronze_marks_all(sess, frames) ==
    [s \in DOMAIN sess |->
        IF sess[s].bronze_done_at = Null
        THEN [sess[s] EXCEPT !.bronze_done_at = Now]
        ELSE sess[s]]

\* sync_bronze_status_from_raw: UPDATE session SET bronze_done_at = NOW()
\* for the sessions that have a frame and a NULL marker.
sync_bronze_status_from_raw(sess, frames) ==
    [s \in DOMAIN sess |->
        IF (\E r \in frames : r.session_id = s) /\ sess[s].bronze_done_at = Null
        THEN [sess[s] EXCEPT !.bronze_done_at = Now]
        ELSE sess[s]]

\* Variant: a WHERE clause without the test of the marker and the flag.
BronzeCandidate_any_marker(srow) == srow.raw_file_path # Null

\* Variant: a WHERE clause without the test of raw_file_path.
BronzeCandidate_any_path(srow) ==
    srow.bronze_done_at = Null \/ srow.force_reprocess = TRUE

\* Variant: a WHERE clause that selects on the flag alone.
BronzeCandidate_forced_only(srow) ==
    /\ srow.raw_file_path # Null
    /\ srow.force_reprocess = TRUE

\* The WHERE clause of fetch_uningested_sessions.
BronzeCandidate(srow) ==
    /\ srow.raw_file_path # Null
    /\ (srow.bronze_done_at = Null \/ srow.force_reprocess = TRUE)

\* Variant: a SELECT list without the metadata columns, so that
\* row.get("task_type", None) yields the default.
BronzeRowWithoutMetadata(sess, s) ==
    [id |-> s,
     device_id |-> sess[s].device_id,
     raw_file_path |-> sess[s].raw_file_path,
     task_type |-> Null,
     force_reprocess |-> sess[s].force_reprocess]

\* One row of the DataFrame fetch_uningested_sessions returns.
BronzeRow(sess, s) ==
    [id |-> s,
     device_id |-> sess[s].device_id,
     raw_file_path |-> sess[s].raw_file_path,
     task_type |-> sess[s].task_type,
     force_reprocess |-> sess[s].force_reprocess]

\* Variant: the candidates, ORDER BY s.id DESC.
fetch_uningested_descending(sess) ==
    LET ids == SortedSeq({s \in DOMAIN sess : BronzeCandidate(sess[s])})
    IN  [i \in 1..Len(ids) |-> BronzeRow(sess, ids[Len(ids) + 1 - i])]

\* fetch_uningested_sessions: the candidates, ORDER BY s.id.
fetch_uningested_sessions(sess) ==
    LET ids == SortedSeq({s \in DOMAIN sess : BronzeCandidate(sess[s])})
    IN  [i \in 1..Len(ids) |-> BronzeRow(sess, ids[i])]

\* Variant: an UPDATE that also resets the marker of the next stage.
mark_bronze_reset_feature(sess, sid) ==
    [sess EXCEPT ![sid].bronze_done_at = Now,
                 ![sid].force_reprocess = FALSE,
                 ![sid].feature_done_at = Null]

\* mark_session_bronze_done: one UPDATE of both columns.
mark_session_bronze_done(sess, sid) ==
    [sess EXCEPT ![sid].bronze_done_at = Now,
                 ![sid].force_reprocess = FALSE]

\* Variant: a DELETE that removes no row.
delete_nothing(frames, sid) == frames

\* delete_existing_frames_if_any: DELETE FROM raw.vibration_frame WHERE session_id = :sid.
delete_existing_frames_if_any(frames, sid) ==
    {r \in frames : r.session_id # sid}

\* Variant: an out_df that keeps only the first record of the object.
OutRowsFirstOnly(row, df) ==
    [i \in 1..(IF df.records = <<>> THEN 0 ELSE 1) |->
        [session_id |-> row.id,
         device_id |-> row.device_id,
         frame_seq |-> df.records[i].seq,
         t0_utc |-> df.records[i].t0,
         samples_per_frame |-> IF df.records[i].ax.is_none THEN 0
                               ELSE Len(df.records[i].ax.items),
         ax |-> df.records[i].ax,
         ay |-> df.records[i].ay,
         az |-> df.records[i].az,
         task_type |-> row.task_type]]

\* The out_df of one object: its records with the session's columns attached.
OutRows(row, df) ==
    [i \in 1..Len(df.records) |->
        [session_id |-> row.id,
         device_id |-> row.device_id,
         frame_seq |-> df.records[i].seq,
         t0_utc |-> df.records[i].t0,
         samples_per_frame |-> IF df.records[i].ax.is_none THEN 0
                               ELSE Len(df.records[i].ax.items),
         ax |-> df.records[i].ax,
         ay |-> df.records[i].ay,
         az |-> df.records[i].az,
         task_type |-> row.task_type]]

FrameKey(r) == <<r.session_id, r.frame_seq>>

\* Variant: a table without the primary key.
FramesNeverConflict(frames, out) == FALSE

\* PRIMARY KEY (session_id, frame_seq): the multi-row INSERT is rejected when
\* two of its rows share a key or one of them is already in the table.
FramesConflict(frames, out) ==
    \/ \E i, j \in 1..Len(out) : i # j /\ FrameKey(out[i]) = FrameKey(out[j])
    \/ \E i \in 1..Len(out) : \E r \in frames : FrameKey(r) = FrameKey(out[i])

\* write_frames_to_pg: the table after the INSERT transaction committed.
write_frames_to_pg(frames, out) == frames \cup Range(out)

\* The outcome of (part of) process_one_session: the frame table, the rows
\* written so far, the calls left before a connection error, the exception
\* that left the function ("none" when it returned), whether the marker
\* UPDATE committed.
Outcome(frames, total, budget, exc, marked) ==
    [frames |-> frames, total_rows |-> total, budget |-> budget,
     exc |-> exc, marked |-> marked]

\* Variant: the columns are never checked.
columns_unchecked(df) == FALSE

\* "seq" not in df.columns or "t0" not in df.columns
missing_columns(df) == ~df.has_seq_t0

\* Variant: no object counts as empty.
df_never_empty(df) == FALSE

\* df.empty: the object yielded no row.
df_empty(df) == df.records = <<>>

RECURSIVE BronzeLoop(_, _, _, _, _, _)
\* for obj in sorted(object_names): read, check, normalise, write.
BronzeLoop(row, objs, names, frames, total, budget) ==
    IF names = <<>> THEN Outcome(frames, total, budget, "none", FALSE)
    ELSE IF budget = 0 THEN Outcome(frames, total, 0, "ConnectionError", FALSE)
    ELSE
        LET df == read_jsonl_from_minio(objs, Head(names))
            out == OutRows(row, df)
        IN  IF df_empty(df)
            THEN BronzeLoop(row, objs, Tail(names), frames, total, budget - 1)
            ELSE IF missing_columns(df)
            THEN Outcome(frames, total, budget - 1, "RuntimeError", FALSE)
            ELSE IF budget - 1 = 0
            THEN Outcome(frames, total, 0, "ConnectionError", FALSE)
            ELSE IF FramesConflict(frames, out)
            THEN Outcome(frames, total, budget - 1, "IntegrityError", FALSE)
            ELSE BronzeLoop(row, objs, Tail(names), write_frames_to_pg(frames, out),
                            total + Len(out), budget - 2)

\* Variant: the marker UPDATE whatever total_rows is.
ShouldMark_always(total_rows) == total_rows >= 0

\* if total_rows > 0: mark_session_bronze_done(session_id)
ShouldMark(total_rows) == total_rows > 0

\* process_one_session after the optional delete.
BronzeLoad(row, objs, frames, budget) ==
    IF ~parse_s3_url(row.raw_file_path)
    THEN Outcome(frames, 0, budget, "ValueError", FALSE)
    ELSE IF budget = 0 THEN Outcome(frames, 0, 0, "ConnectionError", FALSE)
    ELSE
        LET names == list_session_objects(objs)
            done == BronzeLoop(row, objs, SortedSeq(names), frames, 0, budget - 1)
        IN  IF names = {} THEN Outcome(frames, 0, budget - 1, "none", FALSE)
            ELSE IF done.exc # "none" THEN done
            ELSE IF ShouldMark(done.total_rows)
            THEN IF done.budget = 0
                 THEN [done EXCEPT !.exc = "ConnectionError"]
                 ELSE [done EXCEPT !.budget = @ - 1, !.marked = TRUE]
            ELSE done

\* process_one_session of bronze_to_silver.py.
bronze_process_one_session(row, objs, frames, budget) ==
    IF row.force_reprocess
    THEN IF budget = 0 THEN Outcome(frames, 0, 0, "ConnectionError", FALSE)
         ELSE BronzeLoad(row, objs, delete_existing_frames_if_any(frames, row.id),
                         budget - 1)
    ELSE BronzeLoad(row, objs, frames, budget)

----------------------------------------------------------------------------
(* frames_to_features.py *)

\* Variant: a backfill that updates no row.
sync_feature_skipped(sess, feats) == sess

\* sync_feature_status_from_mart: UPDATE session SET feature_done_at = NOW()
\* for the sessions that have a feature row and a NULL marker.
sync_feature_status_from_mart(sess, feats) ==
    [s \in DOMAIN sess |->
        IF (\E r \in feats : r.session_id = s) /\ sess[s].feature_done_at = Null
        THEN [sess[s] EXCEPT !.feature_done_at = Now]
        ELSE sess[s]]

\* Variant: a WHERE clause without the EXISTS test on raw.vibration_frame.
FeatureCandidate_no_exists(sess, frames, s) ==
    /\ sess[s].bronze_done_at # Null
    /\ (sess[s].feature_done_at = Null \/ sess[s].force_reprocess = TRUE)

\* Variant: a WHERE clause without the test of bronze_done_at.
FeatureCandidate_any_bronze(sess, frames, s) ==
    /\ (sess[s].feature_done_at = Null \/ sess[s].force_reprocess = TRUE)
    /\ \E vf \in frames : vf.session_id = s

\* The WHERE clause of fetch_sessions_without_features.
FeatureCandidate(sess, frames, s) ==
    /\ sess[s].bronze_done_at # Null
    /\ (sess[s].feature_done_at = Null \/ sess[s].force_reprocess = TRUE)
    /\ \E vf \in frames : vf.session_id = s

\* One row of the DataFrame fetch_sessions_without_features returns.
FeatureRow(sess, s) ==
    [session_id |-> s,
     device_id |-> sess[s].device_id,
     force_reprocess |-> sess[s].force_reprocess]

\* fetch_sessions_without_features: the candidates, ORDER BY s.id.
fetch_sessions_without_features(sess, frames) ==
    LET ids == SortedSeq({s \in DOMAIN sess : FeatureCandidate(sess, frames, s)})
    IN  [i \in 1..Len(ids) |-> FeatureRow(sess, ids[i])]

RECURSIVE FramesInOrder(_, _)
\* SELECT ... FROM raw.vibration_frame WHERE session_id = :sid ORDER BY frame_seq
FramesInOrder(frames, seqs) ==
    IF seqs = <<>> THEN <<>>
    ELSE <<CHOOSE r \in frames : r.frame_seq = Head(seqs)>>
         \o FramesInOrder(frames, Tail(seqs))

\* iter_frames_for_session: the session's frames, to be cut into chunks.
iter_frames_for_session(frames, sid) ==
    LET mine == {r \in frames : r.session_id = sid}
    IN  FramesInOrder(mine, SortedSeq({r.frame_seq : r \in mine}))

(* Numbers.  The doubles compute_features returns are kept exact: a       *)
(* rational is reduced, a square root is kept as its radicand, and a value *)
(* of the size of Tiny is a rational with scale 1 (scale 0: a plain        *)
(* rational).  Rounding of the mantissa is not modelled; the underflow of  *)
(* a square of Tiny is.                                                    *)

\* Variant: the samples as they are, np.abs left out.
AbsSigned(k) == k

\* np.abs of an integer.
Abs(k) == IF k < 0 THEN -k ELSE k

RECURSIVE GCD(_, _)
GCD(a, b) == IF b = 0 THEN a ELSE GCD(b, a % b)

\* The rational n / d (d > 0, n >= 0) at the given scale, reduced.
Rat(n, d, scale) ==
    LET g == GCD(n, d)
    IN  [num |-> n \div g, den |-> d \div g, scale |-> IF n = 0 THEN 0 ELSE scale]

\* np.sqrt of the rational n / d.
Sqrt(n, d) == [sqrt_of |-> Rat(n, d, 0)]

RECURSIVE SumOver(_, _)
\* The sum of f[a[i]] over the array a.
SumOver(f, a) == IF a = <<>> THEN 0 ELSE f[Head(a)] + SumOver(f, Tail(a))

RECURSIVE MaxOver(_, _)
\* The maximum of f[a[i]] over the array a (0 for the empty array).
MaxOver(f, a) ==
    IF a = <<>> THEN 0
    ELSE LET m == MaxOver(f, Tail(a))
         IN  IF f[Head(a)] > m THEN f[Head(a)] ELSE m

\* The result of compute_features for a null or empty array.
NoFeatures ==
    [rms |-> None, peak |-> None, mean_abs |-> None, std |-> None,
     crest_factor |-> None]

\* Variant: peak / rms whatever rms is, 0 when rms is 0.
CrestOrZero(peak, n, sumsq) ==
    IF sumsq > 0 THEN Sqrt(peak * peak * n, sumsq) ELSE Sqrt(0, 1)

\* float(peak / rms) if rms > 0 else None, with rms = sqrt(sumsq / n).
Crest(peak, n, sumsq) ==
    IF sumsq > 0 THEN Sqrt(peak * peak * n, sumsq) ELSE None

\* compute_features: RMS, peak, mean_abs, std, crest_factor of one axis.
compute_features(arr) ==
    IF arr.is_none THEN NoFeatures
    ELSE IF Len(arr.items) = 0 THEN NoFeatures
    ELSE
        LET a == arr.items
            n == Len(a)
            vals == Range(a)
            \* a * a: the square of a multiple of Tiny underflows to 0.0
            sq == [v \in vals |-> IF v[2] = 0 THEN v[1] * v[1] ELSE 0]
            \* the part of each sample that is an integer, and the part
            \* that is a multiple of Tiny
            int == [v \in vals |-> IF v[2] = 0 THEN v[1] ELSE 0]
            absint == [v \in vals |-> IF v[2] = 0 THEN Abs(v[1]) ELSE 0]
            abstiny == [v \in vals |-> IF v[2] = 1 THEN Abs(v[1]) ELSE 0]
            sumsq == SumOver(sq, a)
            sum == SumOver(int, a)
            sumabs == SumOver(absint, a)
            maxabs == MaxOver(absint, a)
        IN  [rms |-> Sqrt(sumsq, n),
             peak |-> IF maxabs > 0 THEN Rat(maxabs, 1, 0)
                      ELSE Rat(MaxOver(abstiny, a), 1, 1),
             mean_abs |-> IF sumabs > 0 THEN Rat(sumabs, n, 0)
                          ELSE Rat(SumOver(abstiny, a), n, 1),
             std |-> Sqrt(n * sumsq - sum * sum, n * n),
             crest_factor |-> Crest(maxabs, n, sumsq)]

\* Variant: a loop that takes the y axis twice and never the z axis.
AxesWithoutZ == <<"x", "y", "y">>

\* for axis, col_name in (("x", "ax"), ("y", "ay"), ("z", "az"))
Axes == <<"x", "y", "z">>

\* The column of the frame row that holds the samples of an axis.
AxisColumn(row, axis) ==
    IF axis = "x" THEN row.ax ELSE IF axis = "y" THEN row.ay ELSE row.az

\* build_feature_rows: one row per frame and axis, in frame order.
build_feature_rows(frames_df) ==
    [k \in 1..(3 * Len(frames_df)) |->
        LET row == frames_df[((k - 1) \div 3) + 1]
            axis == Axes[((k - 1) % 3) + 1]
            feats == compute_features(AxisColumn(row, axis))
        IN  [session_id |-> row.session_id,
             device_id |-> row.device_id,
             frame_seq |-> row.frame_seq,
             t0_utc |-> row.t0_utc,
             axis |-> axis,
             rms |-> feats.rms,
             peak |-> feats.peak,
             mean_abs |-> feats.mean_abs,
             std |-> feats.std,
             crest_factor |-> feats.crest_factor,
             task_type |-> row.task_type]]

FeatureKey(r) == <<r.session_id, r.frame_seq, r.axis>>

\* PRIMARY KEY (session_id, frame_seq, axis) on the multi-row INSERT.
FeaturesConflict(feats, df) ==
    \/ \E i, j \in 1..Len(df) : i # j /\ FeatureKey(df[i]) = FeatureKey(df[j])
    \/ \E i \in 1..Len(df) : \E r \in feats : FeatureKey(r) = FeatureKey(df[i])

\* insert_feature_df: the table after the INSERT transaction committed.
insert_feature_df(feats, df) == feats \cup Range(df)

\* Variant: a DELETE without the WHERE clause.
delete_all_features(feats, sid) == {}

\* delete_existing_features_if_any: DELETE FROM mart.vibration_frame_features
\* WHERE session_id = :sid.
delete_existing_features_if_any(feats, sid) ==
    {r \in feats : r.session_id # sid}

\* Variant: an UPDATE that clears the flag and leaves the marker.
mark_feature_flag_only(sess, sid) ==
    [sess EXCEPT ![sid].force_reprocess = FALSE]

\* mark_session_feature_done: one UPDATE of both columns.
mark_session_feature_done(sess, sid) ==
    [sess EXCEPT ![sid].feature_done_at = Now,
                 ![sid].force_reprocess = FALSE]

\* The outcome of (part of) process_one_session of frames_to_features.py.
FOutcome(feats, total, budget, exc, marked) ==
    [feats |-> feats, total_rows |-> total, budget |-> budget,
     exc |-> exc, marked |-> marked]

RECURSIVE FeatureLoop(_, _, _, _)
\* for frames_df in iter_frames_for_session(sid, chunksize): build and insert.
FeatureLoop(rest, feats, total, budget) ==
    IF rest = <<>> THEN FOutcome(feats, total, budget, "none", FALSE)
    ELSE
        LET feat_df == build_feature_rows(Take(rest, ChunkSize))
        IN  IF budget = 0
            THEN FOutcome(feats, total, 0, "ConnectionError", FALSE)
            ELSE IF FeaturesConflict(feats, feat_df)
            THEN FOutcome(feats, total, budget, "IntegrityError", FALSE)
            ELSE FeatureLoop(Drop(rest, ChunkSize), insert_feature_df(feats, feat_df),
                             total + Len(feat_df), budget - 1)

\* if total_rows > 0: mark_session_feature_done(sid)
ShouldMarkFeature(total_rows) == total_rows > 0

\* process_one_session after the optional delete.
FeatureExtract(row, frames, feats, budget) ==
    IF budget = 0 THEN FOutcome(feats, 0, 0, "ConnectionError", FALSE)
    ELSE
        LET all == iter_frames_for_session(frames, row.session_id)
            done == FeatureLoop(all, feats, 0, budget - 1)
        IN  IF done.exc # "none" THEN done
            ELSE IF all = <<>> THEN done
            ELSE IF ShouldMarkFeature(done.total_rows)
            THEN IF done.budget = 0
                 THEN [done EXCEPT !.exc = "ConnectionError"]
                 ELSE [done EXCEPT !.budget = @ - 1, !.marked = TRUE]
            ELSE done

\* process_one_session of frames_to_features.py.
feature_process_one_session(row, frames, feats, budget) ==
    IF row.force_reprocess
    THEN IF budget = 0 THEN FOutcome(feats, 0, 0, "ConnectionError", FALSE)
         ELSE FeatureExtract(row, frames,
                             delete_existing_features_if_any(feats, row.session_id),
                             budget - 1)
    ELSE FeatureExtract(row, frames, feats, budget)

----------------------------------------------------------------------------
(* The state machine *)

NoStart == [s \in SIDs |-> Null]

\* No call of read_jsonl_from_minio is running and none has raised.
Idle == [line |-> "none", exc |-> "none"]

\* The name resp before the first get_object returned.
NoResponse == [bound |-> FALSE]

\* No call of read_jsonl_from_minio is followed.
NoRead ==
    /\ pc = Idle
    /\ resp = NoResponse
    /\ pending = <<>>

\* The session table as the external ingestion created it: raw_file_path
\* set (or NULL), all markers NULL, nothing loaded.
Init ==
    /\ session \in [SIDs -> [device_id : {"M001"},
                             raw_file_path : Locations,
                             task_type : {"anomaly"},
                             force_reprocess : {FALSE},
                             bronze_done_at : {Null},
                             feature_done_at : {Null}]]
    /\ raw = {}
    /\ mart = {}
    /\ objstore = [s \in SIDs |-> {}]
    /\ phase = "idle"
    /\ queue = <<>>
    /\ hist = [s \in SIDs |-> "none"]
    /\ clean = TRUE
    /\ start = NoStart
    /\ arg = [fn |-> "none"]
    /\ ret = [returned |-> FALSE]
    /\ NoRead

(* History.  hist[s] is                                                    *)
(*   "loaded"   the last bronze iteration of s ran with force_reprocess =  *)
(*              FALSE and committed the marker, and neither the flag nor   *)
(*              the objects of s were written since;                       *)
(*   "failed"   the last bronze iteration of s ran with force_reprocess =  *)
(*              FALSE and raised the schema error, the flag was not        *)
(*              written and no bronze batch started since;                 *)
(*   "conflict" the last bronze iteration of s raised on a rejected INSERT  *)
(*              and no bronze batch started since;                         *)
(*   "redo_failed" a bronze iteration of s ran with force_reprocess = TRUE  *)
(*              and raised, and no bronze iteration of s has committed the *)
(*              marker since;                                              *)
(*   "forced"   force_reprocess was set, between two batches, while both   *)
(*              markers of s were set;                                     *)
(*   "bronzed"  ... and then a bronze batch ran with no iteration raising; *)
(*   "featured" ... and then a feature batch ran with no iteration raising,*)
(*              and nothing has happened since;                            *)
(*   "none"     otherwise.                                                 *)

\* hist when a batch of the given stage ends; ok: none of its iterations raised.
AtBatchEnd(h, stage, ok) ==
    [s \in SIDs |->
        IF stage = "bronze" /\ h[s] = "forced" THEN (IF ok THEN "bronzed" ELSE "none")
        ELSE IF stage = "feature" /\ h[s] = "bronzed" THEN (IF ok THEN "featured" ELSE "none")
        ELSE h[s]]

\* hist when a batch of the given stage starts.
AtBatchStart(h, stage) ==
    [s \in SIDs |->
        IF h[s] = "featured" THEN "none"
        ELSE IF stage = "bronze" /\ h[s] \in {"bronzed", "failed", "conflict"} THEN "none"
        ELSE IF stage = "feature" /\ h[s] = "forced" THEN "none"
        ELSE h[s]]

\* hist after the bronze iteration of row that ended as res.
AfterBronze(h, row, res) ==
    [h EXCEPT ![row.id] =
        IF ~row.force_reprocess /\ res.marked THEN "loaded"
        ELSE IF ~row.force_reprocess /\ res.exc = "RuntimeError" THEN "failed"
        ELSE IF res.exc = "IntegrityError" THEN "conflict"
        ELSE IF /\ row.force_reprocess /\ ~res.marked
                /\ (res.exc # "none" \/ @ = "redo_failed") THEN "redo_failed"
        ELSE IF @ \in {"loaded", "failed", "conflict", "redo_failed"} THEN "none"
        ELSE @]

\* main() of bronze_to_silver.py up to the loop: backfill, then selection.
BronzeMain ==
    /\ phase = "idle"
    /\ session' = sync_bronze_status_from_raw(session, raw)
    /\ queue' = fetch_uningested_sessions(session')
    /\ phase' = IF queue' = <<>> THEN "idle" ELSE "bronze"
    /\ clean' = TRUE
    /\ hist' = IF queue' = <<>>
               THEN AtBatchEnd(AtBatchStart(hist, "bronze"), "bronze", TRUE)
               ELSE AtBatchStart(hist, "bronze")
    /\ start' = IF queue' = <<>> THEN NoStart
                ELSE [s \in SIDs |-> session[s].bronze_done_at]
    /\ UNCHANGED <<raw, mart, objstore, arg, ret,
                   pc, resp, pending>>

\* The store / object-storage calls one process_one_session of
\* bronze_to_silver.py can make over objs: the delete, the listing, a read
\* and an INSERT per object, the marker UPDATE.  A connection that survives
\* that many calls does not fail in the iteration.
BronzeCalls(objs) == 2 * Cardinality(objs) + 3

\* The outcome of the iteration for the head of the bronze queue.
BronzeRes(budget) ==
    bronze_process_one_session(Head(queue), objstore[Head(queue).id], raw, budget)

\* One iteration of the loop of main(): process_one_session in try/except.
BronzeStep(budget) ==
    /\ phase = "bronze"
    /\ budget <= BronzeCalls(objstore[Head(queue).id])
    /\ LET row == Head(queue)
           res == BronzeRes(budget)
           ok == clean /\ res.exc = "none"
       IN  /\ raw' = res.frames
           /\ session' = IF res.marked THEN mark_session_bronze_done(session, row.id)
                         ELSE session
           /\ clean' = (IF Tail(queue) = <<>> THEN TRUE ELSE ok)
           /\ hist' = IF Tail(queue) = <<>>
                      THEN AtBatchEnd(AfterBronze(hist, row, res), "bronze", ok)
                      ELSE AfterBronze(hist, row, res)
    /\ queue' = Tail(queue)
    /\ phase' = IF queue' = <<>> THEN "idle" ELSE "bronze"
    /\ start' = IF queue' = <<>> THEN NoStart ELSE start
    /\ UNCHANGED <<mart, objstore, arg, ret,
                   pc, resp, pending>>

\* main() of frames_to_features.py up to the loop: backfill, then selection.
FeatureMain ==
    /\ phase = "idle"
    /\ session' = sync_feature_status_from_mart(session, mart)
    /\ queue' = fetch_sessions_without_features(session', raw)
    /\ phase' = IF queue' = <<>> THEN "idle" ELSE "feature"
    /\ clean' = TRUE
    /\ hist' = IF queue' = <<>>
               THEN AtBatchEnd(AtBatchStart(hist, "feature"), "feature", TRUE)
               ELSE AtBatchStart(hist, "feature")
    /\ start' = IF queue' = <<>> THEN NoStart
                ELSE [s \in SIDs |-> session[s].feature_done_at]
    /\ UNCHANGED <<raw, mart, objstore, arg, ret,
                   pc, resp, pending>>

\* The store calls one process_one_session of frames_to_features.py can make
\* for session sid: the delete, the query, an INSERT per chunk (at most one
\* per frame), the marker UPDATE.
FeatureCalls(frames, sid) ==
    Cardinality({r \in frames : r.session_id = sid}) + 3

\* The outcome of the iteration for the head of the feature queue.
FeatureRes(budget) ==
    feature_process_one_session(Head(queue), raw, mart, budget)

\* One iteration of the loop of main(): process_one_session in try/except.
FeatureStep(budget) ==
    /\ phase = "feature"
    /\ budget <= FeatureCalls(raw, Head(queue).session_id)
    /\ LET row == Head(queue)
           res == FeatureRes(budget)
           ok == clean /\ res.exc = "none"
       IN  /\ mart' = res.feats
           /\ session' = IF res.marked
                         THEN mark_session_feature_done(session, row.session_id)
                         ELSE session
           /\ clean' = (IF Tail(queue) = <<>> THEN TRUE ELSE ok)
           /\ hist' = IF Tail(queue) = <<>>
                      THEN AtBatchEnd(hist, "feature", ok)
                      ELSE hist
    /\ queue' = Tail(queue)
    /\ phase' = IF queue' = <<>> THEN "idle" ELSE "feature"
    /\ start' = IF queue' = <<>> THEN NoStart ELSE start
    /\ UNCHANGED <<raw, objstore, arg, ret,
                   pc, resp, pending>>

\* An operator requests a reprocess: UPDATE session SET force_reprocess = TRUE.
SetForceReprocess(s) ==
    /\ session[s].force_reprocess = FALSE
    /\ session' = [session EXCEPT ![s].force_reprocess = TRUE]
    /\ hist' = [hist EXCEPT ![s] =
                    IF /\ phase = "idle"
                       /\ session[s].bronze_done_at # Null
                       /\ session[s].feature_done_at # Null
                    THEN "forced" ELSE "none"]
    /\ UNCHANGED <<raw, mart, objstore, phase, queue, clean, start, arg, ret,
                   pc, resp, pending>>

\* The recorder uploads or replaces the objects of a session.
Upload(s, objs) ==
    /\ parse_s3_url(session[s].raw_file_path)
    /\ objstore[s] # objs
    /\ objstore' = [objstore EXCEPT ![s] = objs]
    /\ hist' = [hist EXCEPT ![s] = IF @ = "loaded" THEN "none" ELSE @]
    /\ UNCHANGED <<session, raw, mart, phase, queue, clean, start, arg, ret,
                   pc, resp, pending>>

Next ==
    \/ BronzeMain
    \/ \E budget \in Budgets : BronzeStep(budget)
    \/ FeatureMain
    \/ \E budget \in Budgets : FeatureStep(budget)
    \/ \E s \in SIDs : SetForceReprocess(s)
    \/ \E s \in SIDs : \E objs \in Layouts(s) : Upload(s, objs)

Spec == Init /\ [][Next]_vars

\* An iteration of the bronze loop in which no call fails.
BronzeStepOk ==
    /\ phase = "bronze"
    /\ BronzeStep(BronzeCalls(objstore[Head(queue).id]))

\* An iteration of the feature loop in which no call fails.
FeatureStepOk ==
    /\ phase = "feature"
    /\ FeatureStep(FeatureCalls(raw, Head(queue).session_id))

\* The recorder uploads the objects of a session once.
FirstUpload(s, objs) == objstore[s] = {} /\ Upload(s, objs)

NextLive ==
    \/ BronzeMain
    \/ BronzeStepOk
    \/ FeatureMain
    \/ FeatureStepOk
    \/ \E s \in SIDs : SetForceReprocess(s)
    \/ \E s \in SIDs : \E objs \in Layouts(s) : FirstUpload(s, objs)

\* The loop of the running main() takes its next iteration: the step of
\* NextLive that shortens the queue (BronzeStepOk or FeatureStepOk).
Iterate == phase # "idle" /\ queue' = Tail(queue)

\* The pipeline with both batch jobs invoked again and again, every started
\* batch running to its end, and no store or object-storage call failing.
SpecLive ==
    /\ Init
    /\ [][NextLive]_vars
    /\ SF_vars(BronzeMain)
    /\ SF_vars(FeatureMain)
    /\ WF_queue(Iterate)

NextWide ==
    \/ BronzeMain
    \/ \E budget \in Budgets : BronzeStep(budget)
    \/ FeatureMain
    \/ \E budget \in Budgets : FeatureStep(budget)
    \/ \E s \in SIDs : SetForceReprocess(s)
    \/ \E s \in SIDs : \E objs \in WideLayouts(s) : Upload(s, objs)

\* The pipeline over recordings that repeat sequence numbers.
SpecWide == Init /\ [][NextWide]_vars

----------------------------------------------------------------------------
(* The functions called on their own *)

MaxSamples == 3    \* samples of one axis of a frame

MaxChunk == 2      \* frames of one chunk

\* The samples: zero, integers of both signs, a multiple of Tiny.
SampleValues == {S(0), S(1), S(3), S(-4), T(1)}

\* The arrays of an axis column: None, or a list of at most MaxSamples samples.
Arrays == {None} \cup {List(a) : a \in UNION {[1..n -> SampleValues] : n \in 0..MaxSamples}}

\* The columns ax, ay, az of a frame of a chunk.
ChunkArrays ==
    {<<List(<<S(3), S(-4)>>), List(<<S(3), S(-4)>>), List(<<S(1)>>)>>,
     <<None, List(<<>>), List(<<S(3), S(-4)>>)>>,
     <<List(<<>>), List(<<>>), List(<<>>)>>,
     <<None, None, None>>}

\* The rows iter_frames_for_session yields in a chunk: frame k has frame_seq k.
ChunkRow(k, cols) ==
    [session_id |-> 1, device_id |-> "M001", frame_seq |-> k, t0_utc |-> "a",
     samples_per_frame |-> IF cols[1].is_none THEN 0 ELSE Len(cols[1].items),
     ax |-> cols[1], ay |-> cols[2], az |-> cols[3], task_type |-> "anomaly"]

Chunks ==
    UNION {{[k \in 1..n |-> ChunkRow(k, c[k])] :
                c \in [1..n -> ChunkArrays]} : n \in 0..MaxChunk}

\* The keys: a stem followed by an ending; "d" stands for a letter.
KeyStems ==
    {<<>>, <<"d">>, <<"d", "/">>, <<"d", "/", "d">>, <<"d", "_", "d">>,
     <<"d", ".", "d", "/", "d">>, <<"d", "/", "d", "/", "d">>, <<"d", "\n", "d">>,
     <<"/">>, <<"d", "/", "d", "_", "0", "1">>}

KeyEndings ==
    {<<"_", "0", "0", "0", "0", "0", "1", ".", "d">>,
     <<"_", "0", "0", "0", "0", "0", "1", ".", "d", "d">>,
     <<"_", "0", "0", "0", "0", "1", ".", "d">>,
     <<"_", "0", "0", "0", "0", "0", "0", "1", ".", "d">>,
     <<"_", "0", "0", "0", "0", "0", "1", ".">>,
     <<"_", "0", "0", "0", "0", "0", "1", ".", "d", ".", "d">>,
     <<"_", "0", "0", "0", "0", "0", "d", ".", "d">>,
     <<"0", "0", "0", "0", "0", "1", ".", "d">>,
     <<"_", "0", "0", "0", "0", "0", "1", "d">>,
     <<"_", "0", "0", "0", "0", "0", "1", ".", "d", "/", "d">>,
     <<".", "d">>,
     <<"d">>}

Keys == {stem \o ending : stem \in KeyStems, ending \in KeyEndings}

\* A session table without a location or a marker.
BlankSessions ==
    [s \in SIDs |-> [device_id |-> "M001", raw_file_path |-> Null,
                     task_type |-> "anomaly", force_reprocess |-> FALSE,
                     bronze_done_at |-> Null, feature_done_at |-> Null]]

\* The session tables process_one_session of frames_to_features.py is called
\* on for session 1: its bronze marker set, its feature marker and its flag
\* either way.
CalledSessions ==
    {[BlankSessions EXCEPT ![1].raw_file_path = "s3://phm/M001/rec_000001.jsonl",
                           ![1].bronze_done_at = Now,
                           ![1].feature_done_at = f,
                           ![1].force_reprocess = force] :
         f \in {Null, Now}, force \in BOOLEAN}

\* The frame tables of the call: the frames of a chunk (none, one or two).
CalledFrames == {Range(c) : c \in Chunks}

\* The feature tables of the call: empty, or the rows of frame 1 from an
\* earlier extraction.
CalledFeatures ==
    {{}, Range(build_feature_rows(
               <<ChunkRow(1, <<List(<<S(1)>>), List(<<S(1)>>), List(<<S(1)>>)>>)>>))}

\* The object names of the listing calls: three recordings of the prefix
\* d_, one object a level below it, one with another extension, one of
\* another prefix.
JSONL == <<".", "j", "s", "o", "n", "l">>

ObjectNames ==
    {<<"d", "_", "0">> \o JSONL, <<"d", "_", "1">> \o JSONL,
     <<"d", "_", "1", "0">> \o JSONL, <<"d", "_", "0", "/", "1">> \o JSONL,
     <<"d", "_", "0", ".", "j", "s", "o", "n">>, <<"e", "_", "0">> \o JSONL}

Prefixes == {<<>>, <<"d", "_">>, <<"d", "_", "0">>}

\* The session tables process_one_session of bronze_to_silver.py is called
\* on for session 1: not loaded and not flagged, or loaded and flagged, its
\* location an s3 url or not.
CalledBronzeSessions ==
    {[BlankSessions EXCEPT ![1].raw_file_path = url,
                           ![1].bronze_done_at = IF force THEN Now ELSE Null,
                           ![1].force_reprocess = force] :
        force \in BOOLEAN, url \in Locations \ {Null}}

\* The recordings of the call.
CalledLayouts ==
    {{}, OnlyEmpty, TwoGood, EmptyThenNew, SecondBad, BadThenGood, DupAcross,
     DupWithin, TwoOfThree}

\* The frame table of the call: empty, or, for a flagged session, the
\* frames of an earlier load of TwoGood.
CalledRaw(sess) ==
    IF sess[1].force_reprocess
    THEN {{}, BronzeLoad(BronzeRow(CHOOSE t \in CalledBronzeSessions :
                                       parse_s3_url(t[1].raw_file_path), 1),
                         TwoGood, {}, MaxCalls).frames}
    ELSE {{}}

\* A call of one of the functions with one of its arguments.
InitCall ==
    /\ \/ /\ \/ arg \in {[fn |-> "compute_features", x |-> a] : a \in Arrays}
             \/ arg \in {[fn |-> "build_feature_rows", x |-> c] : c \in Chunks}
             \/ arg \in {[fn |-> "derive_session_prefix_from_key", x |-> k] : k \in Keys}
             \/ arg \in {[fn |-> "list_session_objects",
                           x |-> [bucket |-> b, prefix |-> p]] :
                              b \in SUBSET ObjectNames, p \in Prefixes}
          /\ session = BlankSessions
          /\ raw = {}
          /\ mart = {}
          /\ objstore = [s \in SIDs |-> {}]
       \/ /\ session \in CalledSessions
          /\ raw \in CalledFrames
          /\ mart \in CalledFeatures
          /\ objstore = [s \in SIDs |-> {}]
          /\ arg \in {[fn |-> "process_one_session",
                        x |-> [row |-> FeatureRow(session, 1), budget |-> b]] :
                           b \in 0..FeatureCalls(raw, 1)}
       \/ /\ session \in CalledBronzeSessions
          /\ raw \in CalledRaw(session)
          /\ mart = {}
          /\ objstore \in {[s \in SIDs |-> IF s = 1 THEN objs ELSE {}] :
                               objs \in CalledLayouts}
          /\ arg \in {[fn |-> "bronze_process_one_session",
                        x |-> [row |-> BronzeRow(session, 1), budget |-> b]] :
                           b \in 0..BronzeCalls(objstore[1])}
    /\ ret = [returned |-> FALSE]
    /\ phase = "idle"
    /\ queue = <<>>
    /\ hist = [s \in SIDs |-> "none"]
    /\ clean = TRUE
    /\ start = NoStart
    /\ NoRead

Returns(v) ==
    /\ ret = [returned |-> FALSE]
    /\ ret' = [returned |-> TRUE, value |-> v]
    /\ UNCHANGED <<session, raw, mart, objstore, phase, queue, hist, clean, start, arg,
                   pc, resp, pending>>

CallComputeFeatures ==
    arg.fn = "compute_features" /\ Returns(compute_features(arg.x))

CallBuildFeatureRows ==
    arg.fn = "build_feature_rows" /\ Returns(build_feature_rows(arg.x))

CallDerivePrefix ==
    arg.fn = "derive_session_prefix_from_key"
        /\ Returns(derive_session_prefix_from_key(arg.x))

\* process_one_session of frames_to_features.py called on its own, over the
\* tables as they are.
CallProcessOneSession ==
    /\ arg.fn = "process_one_session"
    /\ ret = [returned |-> FALSE]
    /\ LET res == feature_process_one_session(arg.x.row, raw, mart, arg.x.budget)
       IN  /\ ret' = [returned |-> TRUE, value |-> res]
           /\ mart' = res.feats
           /\ session' = IF res.marked
                         THEN mark_session_feature_done(session, arg.x.row.session_id)
                         ELSE session
    /\ UNCHANGED <<raw, objstore, phase, queue, hist, clean, start, arg,
                   pc, resp, pending>>

\* list_session_objects on a bucket, and sorted() on its result, as
\* process_one_session of bronze_to_silver.py applies them.
CallListSessionObjects ==
    /\ arg.fn = "list_session_objects"
    /\ Returns(sorted(list_session_objects_in(arg.x.bucket, arg.x.prefix)))

\* process_one_session of bronze_to_silver.py called on its own, over the
\* tables and the objects as they are.
CallBronzeProcessOneSession ==
    /\ arg.fn = "bronze_process_one_session"
    /\ ret = [returned |-> FALSE]
    /\ LET res == bronze_process_one_session(arg.x.row, objstore[arg.x.row.id],
                                             raw, arg.x.budget)
       IN  /\ ret' = [returned |-> TRUE, value |-> res]
           /\ raw' = res.frames
           /\ session' = IF res.marked
                         THEN mark_session_bronze_done(session, arg.x.row.id)
                         ELSE session
    /\ UNCHANGED <<mart, objstore, phase, queue, hist, clean, start, arg,
                   pc, resp, pending>>

NextCall ==
    \/ CallComputeFeatures
    \/ CallBuildFeatureRows
    \/ CallDerivePrefix
    \/ CallProcessOneSession
    \/ CallListSessionObjects
    \/ CallBronzeProcessOneSession

\* Each function applied once to each of its arguments.
SpecCall == InitCall /\ [][NextCall]_vars

----------------------------------------------------------------------------
(* The pipeline with the session metadata edited meanwhile *)

\* The values of session.task_type.
TaskTypes == {"anomaly", "diagnosis"}

\* The external writer of the session table changes the metadata of a
\* session: UPDATE session SET task_type = ... WHERE id = s.
Relabel(s, task_type) ==
    /\ session[s].task_type # task_type
    /\ session' = [session EXCEPT ![s].task_type = task_type]
    /\ UNCHANGED <<raw, mart, objstore, phase, queue, hist, clean, start, arg, ret,
                   pc, resp, pending>>

NextMeta ==
    \/ BronzeMain
    \/ BronzeStepOk
    \/ FeatureMain
    \/ FeatureStepOk
    \/ \E s \in SIDs : SetForceReprocess(s)
    \/ \E s \in SIDs : \E objs \in Layouts(s) : FirstUpload(s, objs)
    \/ \E s \in SIDs : \E task_type \in TaskTypes : Relabel(s, task_type)

\* Both batch jobs, no store or object-storage call failing, the recorder,
\* the operator and the writer of the metadata.
SpecMeta == Init /\ [][NextMeta]_vars

----------------------------------------------------------------------------
(* read_jsonl_from_minio, statement by statement *)

\* The object storage the reads go to.
InitRead ==
    /\ session = [s \in SIDs |->
                    [BlankSessions[s] EXCEPT
                        !.raw_file_path = "s3://phm/M001/rec_000001.jsonl"]]
    /\ raw = {}
    /\ mart = {}
    /\ objstore \in {[s \in SIDs |-> IF s = 1 THEN a ELSE b] :
                         a \in CalledLayouts, b \in Layouts(2) \cup {{}}}
    /\ phase = "idle"
    /\ queue = <<>>
    /\ hist = [s \in SIDs |-> "none"]
    /\ clean = TRUE
    /\ start = NoStart
    /\ arg = [fn |-> "none"]
    /\ ret = [returned |-> FALSE]
    /\ NoRead

\* The tables, the objects and the batch are left alone.
ReadFrame ==
    UNCHANGED <<session, raw, mart, objstore, phase, queue, hist, clean, start,
                arg, ret>>

\* process_one_session reaches its loop for session s:
\* for obj in sorted(object_names).
StartLoop(s) ==
    /\ pc.line = "none"
    /\ pending = <<>>
    /\ objstore[s] # {}
    /\ pending' = SortedSeq(list_session_objects(objstore[s]))
    /\ UNCHANGED <<pc, resp>>
    /\ ReadFrame

\* resp = client.get_object(bucket, object_name): a response, or an
\* exception that leaves read_jsonl_from_minio and process_one_session.
GetObject(ok) ==
    /\ pc.line = "none"
    /\ pending # <<>>
    /\ IF ok
       THEN /\ resp' = [bound |-> TRUE, object_name |-> Head(pending),
                        closed |-> FALSE, released |-> FALSE]
            /\ pc' = [line |-> "read", exc |-> "none"]
            /\ UNCHANGED pending
       ELSE /\ pc' = [line |-> "none", exc |-> "S3Error"]
            /\ pending' = <<>>
            /\ UNCHANGED resp
    /\ ReadFrame

\* Variant: the read outside a try statement; its exception leaves the
\* function at once.
AfterReadUnprotected(exc) ==
    IF exc = "none" THEN [line |-> "close", exc |-> "none"]
    ELSE [line |-> "none", exc |-> exc]

\* try: data = resp.read() / finally: the finally block runs whether the
\* read returned or raised.
AfterRead(exc) == [line |-> "close", exc |-> exc]

\* data = resp.read(): the bytes, or an exception.
Read(ok) ==
    /\ pc.line = "read"
    /\ pc' = AfterRead(IF ok THEN "none" ELSE "ReadTimeoutError")
    /\ UNCHANGED <<resp, pending>>
    /\ ReadFrame

\* resp.close()
Close ==
    /\ pc.line = "close"
    /\ resp' = [resp EXCEPT !.closed = TRUE]
    /\ pc' = [pc EXCEPT !.line = "release_conn"]
    /\ UNCHANGED pending
    /\ ReadFrame

\* resp.release_conn(), the end of the finally block: the exception of the
\* read, if any, leaves the function and process_one_session.
ReleaseConn ==
    /\ pc.line = "release_conn"
    /\ resp' = [resp EXCEPT !.released = TRUE]
    /\ IF pc.exc = "none"
       THEN /\ pc' = [pc EXCEPT !.line = "read_json"]
            /\ UNCHANGED pending
       ELSE /\ pc' = [pc EXCEPT !.line = "none"]
            /\ pending' = <<>>
    /\ ReadFrame

\* df = pd.read_json(buf, lines=True); return df.  The loop then goes on to
\* the next object, or the rest of its body raises and ends it.
ReadJson(goes_on) ==
    /\ pc.line = "read_json"
    /\ pc' = [pc EXCEPT !.line = "none"]
    /\ pending' = IF goes_on THEN Tail(pending) ELSE <<>>
    /\ UNCHANGED resp
    /\ ReadFrame

NextRead ==
    \/ \E s \in SIDs : StartLoop(s)
    \/ \E ok \in BOOLEAN : GetObject(ok)
    \/ \E ok \in BOOLEAN : Read(ok)
    \/ Close
    \/ ReleaseConn
    \/ \E goes_on \in BOOLEAN : ReadJson(goes_on)

\* The reads of the loops of process_one_session, one session after another.
SpecRead == InitRead /\ [][NextRead]_vars

----------------------------------------------------------------------------
(* Vocabulary of the properties *)

RawOf(s) == {r \in raw : r.session_id = s}

MartOf(s) == {r \in mart : r.session_id = s}

\* The ids in sessions_df of the running bronze main().
BronzeQueueIds == {queue[i].id : i \in 1..Len(queue)}

\* The ids in sessions_df of the running feature main().
FeatureQueueIds == {queue[i].session_id : i \in 1..Len(queue)}

\* The frames a load of the current objects of s into an empty table writes.
FromScratch(s) ==
    BronzeLoad(BronzeRow(session, s), objstore[s], {}, MaxCalls).frames

\* The feature rows an extraction over the current frames of s produces.
ExtractFromScratch(s) ==
    Range(build_feature_rows(iter_frames_for_session(raw, s)))

\* The running main() has selected and has not iterated yet.
JustSelected ==
    \/ phase = "bronze" /\ queue = fetch_uningested_sessions(session)
    \/ phase = "feature" /\ queue = fetch_sessions_without_features(session, raw)

----------------------------------------------------------------------------
(* C1 *)

\* C1: idempotence of the bronze stage.  Once a session was loaded on the
\* non-force path and its marker committed, and as long as neither its flag
\* nor its objects are written, the frame table holds exactly the rows of its
\* objects, a bronze main() does not select it, and no step of a bronze batch
\* changes its frames or its session row.
C1_BronzeIdempotent ==
    [][\A s \in SIDs : hist[s] = "loaded" =>
          /\ RawOf(s) = FromScratch(s)
          /\ RawOf(s) # {}
          /\ BronzeMain => /\ s \notin BronzeQueueIds'
                           /\ session'[s] = session[s]
                           /\ RawOf(s)' = RawOf(s)
          /\ \A b \in Budgets : BronzeStep(b) =>
                           /\ Head(queue).id # s
                           /\ session'[s] = session[s]
                           /\ RawOf(s)' = RawOf(s)]_vars

\* A later bronze batch is running, began with the marker of a loaded
\* session set, and did not select it.
C1_Witness ==
    \E s \in SIDs :
        /\ hist[s] = "loaded"
        /\ phase = "bronze"
        /\ start[s] # Null
        /\ s \notin BronzeQueueIds

----------------------------------------------------------------------------
(* C2 *)

\* A bronze iteration that reloads session s, with force_reprocess selected
\* TRUE and without raising, while the bronze marker of s is set.
ForcedReload(s, b) ==
    /\ BronzeStep(b)
    /\ Head(queue).id = s
    /\ Head(queue).force_reprocess
    /\ session[s].bronze_done_at # Null
    /\ BronzeRes(b).exc = "none"

\* C2 as claimed: after a forced reload that did not raise, the frames of the
\* session are exactly those of a from-scratch load of its current objects
\* and force_reprocess is FALSE.
C2_AsClaimed ==
    [][\A s \in SIDs, b \in Budgets : ForcedReload(s, b) =>
          /\ RawOf(s)' = FromScratch(s)
          /\ ~session'[s].force_reprocess]_vars

\* C2 amended: after a forced reload that did not raise, the frames of the
\* session are exactly those of a from-scratch load of its current objects;
\* force_reprocess is FALSE afterwards when the reload wrote a row, and is
\* still TRUE when it wrote none.
C2_ReprocessReplace ==
    [][\A s \in SIDs, b \in Budgets : ForcedReload(s, b) =>
          /\ RawOf(s)' = FromScratch(s)
          /\ session'[s].force_reprocess <=> (RawOf(s)' = {})]_vars

\* A session reprocessed on demand: both markers were set, the flag was set,
\* a bronze batch ran without raising and wrote its frames anew.
C2_Witness ==
    \E s \in SIDs :
        /\ hist[s] = "bronzed"
        /\ RawOf(s) # {}
        /\ ~session[s].force_reprocess

----------------------------------------------------------------------------
(* C3 *)

\* C3 as claimed (for a session that has frames after the reload): when
\* force_reprocess was set on a session with both markers set, and then a
\* bronze batch and then a feature batch ran with no iteration raising, the
\* feature rows of the session are those of an extraction over its current
\* frames.
C3_AsClaimed ==
    \A s \in SIDs :
        (hist[s] = "featured" /\ RawOf(s) # {}) => MartOf(s) = ExtractFromScratch(s)

----------------------------------------------------------------------------
(* C4 *)

\* The rows and the session row of every session but s are left alone.
OthersUntouched(s) ==
    \A o \in SIDs \ {s} :
        /\ RawOf(o)' = RawOf(o)
        /\ MartOf(o)' = MartOf(o)
        /\ session'[o] = session[o]

\* C4 as claimed: when an iteration of a bronze or feature batch raises, the
\* candidates after it stay queued and the batch goes on, no other session's
\* rows or session row change, and the stage marker of the failing session
\* is what it was when the invocation began.
C4_AsClaimed ==
    [][\A s \in SIDs, b \in Budgets :
          /\ (BronzeStep(b) /\ Head(queue).id = s /\ BronzeRes(b).exc # "none") =>
                /\ queue' = Tail(queue)
                /\ Tail(queue) # <<>> => phase' = "bronze"
                /\ OthersUntouched(s)
                /\ session'[s].bronze_done_at = start[s]
          /\ (FeatureStep(b) /\ Head(queue).session_id = s /\ FeatureRes(b).exc # "none") =>
                /\ queue' = Tail(queue)
                /\ Tail(queue) # <<>> => phase' = "feature"
                /\ OthersUntouched(s)
                /\ session'[s].feature_done_at = start[s]]_vars

\* The part of C4 about the iteration alone: the raising iteration leaves the
\* queue's tail, the other sessions and the session row of its own session
\* as they were.
C4_StepIsolation ==
    [][\A s \in SIDs, b \in Budgets :
          /\ (BronzeStep(b) /\ Head(queue).id = s /\ BronzeRes(b).exc # "none") =>
                /\ queue' = Tail(queue)
                /\ Tail(queue) # <<>> => phase' = "bronze"
                /\ OthersUntouched(s)
                /\ session'[s] = session[s]
          /\ (FeatureStep(b) /\ Head(queue).session_id = s /\ FeatureRes(b).exc # "none") =>
                /\ queue' = Tail(queue)
                /\ Tail(queue) # <<>> => phase' = "feature"
                /\ OthersUntouched(s)
                /\ session'[s] = session[s]]_vars

----------------------------------------------------------------------------
(* C5 *)

\* C5 as claimed: a session whose non-force bronze load raised the schema
\* error has a NULL bronze marker, and the next bronze main() selects it.
C5_AsClaimed ==
    [][\A s \in SIDs :
          /\ hist'[s] = "failed" => session'[s].bronze_done_at = Null
          /\ (hist[s] = "failed" /\ BronzeMain) => s \in BronzeQueueIds']_vars

----------------------------------------------------------------------------
(* C6 *)

\* Session s is Pending at the bronze stage with frames already stored.
PendingWithFrames(s) ==
    /\ session[s].raw_file_path # Null
    /\ session[s].bronze_done_at = Null
    /\ RawOf(s) # {}

\* Session s is Pending at the feature stage with feature rows already stored.
PendingWithFeatures(s) ==
    /\ session[s].bronze_done_at # Null
    /\ session[s].feature_done_at = Null
    /\ RawOf(s) # {}
    /\ MartOf(s) # {}

----------------------------------------------------------------------------
(* C7 *)

\* C7: every queued candidate that was selected with force_reprocess FALSE
\* has no row in the store of the running stage.
C7_NonForceStartsEmpty ==
    /\ phase = "bronze" =>
          \A i \in 1..Len(queue) :
              ~queue[i].force_reprocess => RawOf(queue[i].id) = {}
    /\ phase = "feature" =>
          \A i \in 1..Len(queue) :
              ~queue[i].force_reprocess => MartOf(queue[i].session_id) = {}

\* A bronze batch whose backfill set a marker has a non-force candidate queued.
C7_Witness ==
    /\ phase = "bronze"
    /\ \E i \in 1..Len(queue) : ~queue[i].force_reprocess
    /\ \E s \in SIDs : start[s] = Null /\ session[s].bronze_done_at # Null
                       /\ RawOf(s) # {} /\ hist[s] # "loaded"

----------------------------------------------------------------------------
(* C8 *)

\* C8: the backfill of a stage sets the marker of exactly the sessions with a
\* row in the stage's store and a NULL marker, and changes nothing else of
\* the session table or of the two stores.
C8_BackfillEffect ==
    [][/\ BronzeMain =>
            /\ \A s \in SIDs :
                  session'[s] =
                      IF RawOf(s) # {} /\ session[s].bronze_done_at = Null
                      THEN [session[s] EXCEPT !.bronze_done_at = Now]
                      ELSE session[s]
            /\ raw' = raw /\ mart' = mart
       /\ FeatureMain =>
            /\ \A s \in SIDs :
                  session'[s] =
                      IF MartOf(s) # {} /\ session[s].feature_done_at = Null
                      THEN [session[s] EXCEPT !.feature_done_at = Now]
                      ELSE session[s]
            /\ raw' = raw /\ mart' = mart]_vars

\* A feature batch has just selected and its backfill set a marker, while
\* another session without feature rows kept its NULL marker.
C8_Witness ==
    /\ phase = "feature"
    /\ JustSelected
    /\ \E s \in SIDs : start[s] = Null /\ session[s].feature_done_at # Null
    /\ \E o \in SIDs : MartOf(o) = {} /\ session[o].feature_done_at = Null

----------------------------------------------------------------------------
(* C9 *)

\* C9: an iteration commits the marker UPDATE exactly when it returned
\* without raising and wrote at least one row; that UPDATE sets the marker
\* and clears force_reprocess at once; otherwise the session row is left as
\* it was.  A bronze iteration that returned having written no row leaves the
\* session without a frame and still matching the bronze selection
\* predicate, and the next bronze main() selects it.
C9_StageTransition ==
    [][/\ \A s \in SIDs, b \in Budgets :
          /\ (BronzeStep(b) /\ Head(queue).id = s) =>
                IF BronzeRes(b).exc = "none" /\ BronzeRes(b).total_rows > 0
                THEN /\ session'[s] = [session[s] EXCEPT !.bronze_done_at = Now,
                                                         !.force_reprocess = FALSE]
                     /\ RawOf(s)' # {}
                ELSE /\ session'[s] = session[s]
                     /\ BronzeRes(b).exc = "none" =>
                           /\ RawOf(s)' = {}
                           /\ session'[s].raw_file_path # Null
                           /\ \/ session'[s].bronze_done_at = Null
                              \/ session'[s].force_reprocess
          /\ (FeatureStep(b) /\ Head(queue).session_id = s) =>
                IF FeatureRes(b).exc = "none" /\ FeatureRes(b).total_rows > 0
                THEN /\ session'[s] = [session[s] EXCEPT !.feature_done_at = Now,
                                                         !.force_reprocess = FALSE]
                     /\ MartOf(s)' # {}
                ELSE session'[s] = session[s]
       /\ BronzeMain =>
             \A s \in SIDs :
                 (/\ session[s].raw_file_path # Null
                  /\ session[s].bronze_done_at = Null \/ session[s].force_reprocess
                  /\ RawOf(s) = {}) => s \in BronzeQueueIds']_vars

\* A bronze batch is running in which no iteration raised, and a session that
\* it has already iterated is still a candidate without a frame: its load
\* wrote no row.
C9_Witness ==
    /\ phase = "bronze"
    /\ clean
    /\ \E s \in SIDs :
          /\ s \notin BronzeQueueIds
          /\ \E i \in 1..Len(queue) : queue[i].id > s
          /\ session[s].raw_file_path # Null
          /\ session[s].bronze_done_at = Null
          /\ ~session[s].force_reprocess
          /\ objstore[s] # {}
          /\ RawOf(s) = {}

----------------------------------------------------------------------------
(* C10 *)

\* C10: the sessions a bronze main() selects are exactly those with a
\* non-NULL raw_file_path and a NULL bronze marker or force_reprocess TRUE
\* (markers as the backfill left them), and every bronze iteration runs on a
\* session whose raw_file_path is not NULL.
C10_BronzeSelection ==
    [][/\ BronzeMain =>
            BronzeQueueIds' =
                {s \in SIDs : /\ session'[s].raw_file_path # Null
                              /\ \/ session'[s].bronze_done_at = Null
                                 \/ session'[s].force_reprocess}
       /\ \A b \in Budgets : BronzeStep(b) =>
            session[Head(queue).id].raw_file_path # Null]_vars

\* A bronze batch has just selected another session and left out one whose
\* raw_file_path is NULL although its force_reprocess is TRUE.
C10_Witness ==
    /\ phase = "bronze"
    /\ JustSelected
    /\ \E s \in SIDs :
          /\ session[s].raw_file_path = Null
          /\ session[s].force_reprocess
          /\ session[s].bronze_done_at = Null
          /\ s \notin BronzeQueueIds

----------------------------------------------------------------------------
(* C11 *)

\* C11: the sessions a feature main() selects are exactly those with a set
\* bronze marker, at least one frame, and a NULL feature marker or
\* force_reprocess TRUE (markers as the backfill left them), and every
\* feature iteration runs on a session whose bronze marker is set and that
\* has a frame.
C11_FeatureSelection ==
    [][/\ FeatureMain =>
            FeatureQueueIds' =
                {s \in SIDs : /\ session'[s].bronze_done_at # Null
                              /\ RawOf(s)' # {}
                              /\ \/ session'[s].feature_done_at = Null
                                 \/ session'[s].force_reprocess}
       /\ \A b \in Budgets : FeatureStep(b) =>
            /\ session[Head(queue).session_id].bronze_done_at # Null
            /\ RawOf(Head(queue).session_id) # {}]_vars

\* A feature batch has just selected another session and left out one whose
\* bronze marker is set and whose feature stage is to do, but that has no
\* frame.
C11_Witness ==
    /\ phase = "feature"
    /\ JustSelected
    /\ \E s \in SIDs :
          /\ session[s].bronze_done_at # Null
          /\ session[s].feature_done_at = Null \/ session[s].force_reprocess
          /\ RawOf(s) = {}
          /\ s \notin FeatureQueueIds

----------------------------------------------------------------------------
(* C12 *)

\* No two rows of raw.vibration_frame share (session_id, frame_seq) and no
\* two rows of mart.vibration_frame_features share (session_id, frame_seq,
\* axis).
PrimaryKeysUnique ==
    /\ \A r1, r2 \in raw : FrameKey(r1) = FrameKey(r2) => r1 = r2
    /\ \A f1, f2 \in mart : FeatureKey(f1) = FeatureKey(f2) => f1 = f2

\* C12: the primary keys are unique in every state, and when an INSERT of a
\* bronze iteration is rejected, the object whose rows it carried repeats a
\* key, among its own rows or against the table, and none of its rows is in
\* the table afterwards.
C12_PrimaryKeys ==
    /\ []PrimaryKeysUnique
    /\ [][\A b \in Budgets :
            (BronzeStep(b) /\ BronzeRes(b).exc = "IntegrityError") =>
                \E o \in objstore[Head(queue).id] :
                    LET out == OutRows(Head(queue), o)
                    IN  /\ FramesConflict(raw', out)
                        /\ Range(out) \cap raw' = {}]_vars

\* An INSERT of the last bronze iteration of a session was rejected while
\* the rows of an earlier object of the session are in the table.
C12_Witness ==
    \E s \in SIDs :
        /\ hist[s] = "conflict"
        /\ RawOf(s) # {}
        /\ session[s].bronze_done_at = Null

----------------------------------------------------------------------------
(* C13 *)

\* The feature rows of s are three per frame of s, one per axis, and none
\* belongs to a frame that is not in raw.vibration_frame.
FeaturesComplete(s) ==
    /\ \A r \in RawOf(s) :
          /\ {f.axis : f \in {g \in MartOf(s) : g.frame_seq = r.frame_seq}}
                = {"x", "y", "z"}
          /\ Cardinality({g \in MartOf(s) : g.frame_seq = r.frame_seq}) = 3
    /\ \A f \in MartOf(s) : \E r \in RawOf(s) : r.frame_seq = f.frame_seq

\* C13 as claimed: whenever the feature marker of a session is set and
\* force_reprocess is FALSE, its feature rows are complete.
C13_AsClaimed ==
    \A s \in SIDs :
        (session[s].feature_done_at # Null /\ ~session[s].force_reprocess)
            => FeaturesComplete(s)

----------------------------------------------------------------------------
(* C14 *)

\* C14: for a chunk of n frames build_feature_rows returns 3n rows, exactly
\* one for each frame and each of the axes x, y, z, also when the samples of
\* an axis are an empty list or None.
C14_ThreeRowsPerFrame ==
    (arg.fn = "build_feature_rows" /\ ret.returned) =>
        LET frames_df == arg.x
            out == ret.value
        IN  /\ Len(out) = 3 * Len(frames_df)
            /\ \A k \in 1..Len(frames_df) : \A axis \in {"x", "y", "z"} :
                  Cardinality({i \in 1..Len(out) :
                                  /\ out[i].frame_seq = frames_df[k].frame_seq
                                  /\ out[i].axis = axis}) = 1

\* build_feature_rows returned for a chunk of two frames, one of them with
\* None for ax and an empty list for ay.
C14_Witness ==
    /\ arg.fn = "build_feature_rows"
    /\ ret.returned
    /\ Len(arg.x) = MaxChunk
    /\ \E k \in 1..Len(arg.x) : arg.x[k].ax = None /\ arg.x[k].ay = List(<<>>)

----------------------------------------------------------------------------
(* C15 *)

\* The records of all the objects of s.
AllRecords(s) == UNION {Range(o.records) : o \in objstore[s]}

RECURSIVE CountRecords(_)
\* n: the number of records the objects hold in total.
CountRecords(objs) ==
    IF objs = {} THEN 0
    ELSE LET o == CHOOSE x \in objs : TRUE
         IN  Len(o.records) + CountRecords(objs \ {o})

\* The objects of s hold frames only (every record has seq and t0) and the
\* sequence numbers differ.
DistinctFrames(s) ==
    /\ objstore[s] # {}
    /\ \A o \in objstore[s] : o.records # <<>> => o.has_seq_t0
    /\ Cardinality({r.seq : r \in AllRecords(s)}) = CountRecords(objstore[s])

\* The bronze iteration of a fresh session s over objects of distinct frames,
\* with every store and object-storage call succeeding.
FreshBronze(s, b) ==
    /\ BronzeStep(b)
    /\ b = BronzeCalls(objstore[s])
    /\ Head(queue).id = s
    /\ ~Head(queue).force_reprocess
    /\ session[s].bronze_done_at = Null
    /\ session[s].feature_done_at = Null
    /\ RawOf(s) = {} /\ MartOf(s) = {}
    /\ DistinctFrames(s)

\* The feature iteration that follows for s, with every store call succeeding.
FreshFeature(s, b) ==
    /\ FeatureStep(b)
    /\ b = FeatureCalls(raw, s)
    /\ Head(queue).session_id = s
    /\ ~Head(queue).force_reprocess
    /\ hist[s] = "loaded"
    /\ session[s].feature_done_at = Null
    /\ MartOf(s) = {}

----------------------------------------------------------------------------
(* C16 *)

\* The key ends with "_", exactly six digits, a "." and an extension (at
\* least one character, none of them a "."), the "_" standing at position i.
EndsWithSuffixAt(key, i) ==
    /\ i >= 1 /\ Len(key) >= i + 8
    /\ key[i] = "_"
    /\ \A j \in (i + 1)..(i + 6) : key[j] \in Digits
    /\ key[i + 7] = "."
    /\ \A j \in (i + 8)..Len(key) : key[j] # "."

\* The parent directory of a key: what precedes its last "/", nothing when
\* the key has no "/".
ParentDir(key) ==
    IF \A i \in 1..Len(key) : key[i] # "/" THEN <<>>
    ELSE SubSeq(key, 1, (CHOOSE i \in 1..Len(key) :
                            /\ key[i] = "/"
                            /\ \A j \in (i + 1)..Len(key) : key[j] # "/") - 1)

\* C16 as claimed: a key that ends with "_", six digits, "." and an extension
\* yields the key up to and including that "_"; every other key yields its
\* parent directory followed by "/".
C16_AsClaimed ==
    (arg.fn = "derive_session_prefix_from_key" /\ ret.returned) =>
        IF \E i \in 1..Len(arg.x) : EndsWithSuffixAt(arg.x, i)
        THEN \E i \in 1..Len(arg.x) :
                 EndsWithSuffixAt(arg.x, i) /\ ret.value = SubSeq(arg.x, 1, i)
        ELSE ret.value = ParentDir(arg.x) \o <<"/">>

\* What of C16 holds: the claim for the keys that have a "/" and no newline
\* before the suffix.
C16_WithDirectory ==
    (/\ arg.fn = "derive_session_prefix_from_key" /\ ret.returned
     /\ \E i \in 1..Len(arg.x) : arg.x[i] = "/"
     /\ \A i \in 1..Len(arg.x) : arg.x[i] # "\n") => C16_AsClaimed

----------------------------------------------------------------------------
(* C17 *)

\* compute_features has returned for the samples [3, -4].
ReturnedForExample ==
    /\ arg.fn = "compute_features"
    /\ arg.x = List(<<S(3), S(-4)>>)
    /\ ret.returned

\* The statistics f have crest_factor * rms = peak (all of them integers or
\* roots of rationals): crest_factor^2 * rms^2 = peak^2.
CrestIsPeakOverRms(f) ==
    LET c == f.crest_factor.sqrt_of
        r == f.rms.sqrt_of
    IN  c.num * r.num * f.peak.den * f.peak.den
            = f.peak.num * f.peak.num * c.den * r.den

\* C17 as claimed: for [3, -4], rms = 2.5 = sqrt(25/4), peak = 4,
\* mean_abs = 3.5 and crest_factor = 1.6 = sqrt(64/25).
C17_AsClaimed ==
    ReturnedForExample =>
        /\ ret.value.rms = Sqrt(25, 4)
        /\ ret.value.peak = Rat(4, 1, 0)
        /\ ret.value.mean_abs = Rat(7, 2, 0)
        /\ ret.value.crest_factor = Sqrt(64, 25)

\* C17 amended: for [3, -4], rms = sqrt(25/2) (the root of the mean of 9 and
\* 16, about 3.5355), peak = 4, mean_abs = 7/2, and crest_factor = peak / rms
\* = sqrt(32/25) (about 1.1314); whenever crest_factor is a number it is
\* peak divided by rms.
C17_FeatureMath ==
    /\ ReturnedForExample =>
          /\ ret.value.rms = Sqrt(25, 2)
          /\ ret.value.peak = Rat(4, 1, 0)
          /\ ret.value.mean_abs = Rat(7, 2, 0)
          /\ ret.value.crest_factor = Sqrt(32, 25)
    /\ (arg.fn = "compute_features" /\ ret.returned) =>
          (ret.value.crest_factor # None => CrestIsPeakOverRms(ret.value))

\* compute_features has returned a peak of 4 for [3, -4].
C17_Witness ==
    ReturnedForExample /\ ret.value.peak = Rat(4, 1, 0)

----------------------------------------------------------------------------
(* C18 *)

\* compute_features has returned.
ReturnedStatistics == arg.fn = "compute_features" /\ ret.returned

\* What C18 says of every sequence but for the condition of a null
\* crest_factor: all five statistics are None for a null or empty sequence;
\* the first four are numbers for a non-empty one.
NullsAsClaimed ==
    IF arg.x.is_none \/ arg.x = List(<<>>)
    THEN ret.value = NoFeatures
    ELSE /\ ret.value.rms # None
         /\ ret.value.peak # None
         /\ ret.value.mean_abs # None
         /\ ret.value.std # None

\* C18 as claimed: for a non-empty sequence crest_factor is null exactly
\* when every sample is zero.
C18_AsClaimed ==
    ReturnedStatistics =>
        /\ NullsAsClaimed
        /\ (~arg.x.is_none /\ arg.x # List(<<>>)) =>
              (ret.value.crest_factor = None
                  <=> \A i \in 1..Len(arg.x.items) : arg.x.items[i] = S(0))

\* C18 amended: for a non-empty sequence crest_factor is null exactly when
\* the computed rms is 0, which it is when every sample is zero and also
\* when the squares of the nonzero samples underflow; otherwise it is
\* peak / rms; it is never the number 0.
C18_NullStatistics ==
    ReturnedStatistics =>
        /\ NullsAsClaimed
        /\ (~arg.x.is_none /\ arg.x # List(<<>>)) =>
              /\ ret.value.crest_factor = None <=> ret.value.rms = Sqrt(0, 1)
              /\ (\A i \in 1..Len(arg.x.items) : arg.x.items[i] = S(0))
                    => ret.value.crest_factor = None
              /\ ret.value.crest_factor # None => CrestIsPeakOverRms(ret.value)
              /\ ret.value.crest_factor # Sqrt(0, 1)

\* compute_features has returned an rms of 0 and a null crest_factor for
\* [0, 0].
C18_Witness ==
    /\ ReturnedStatistics
    /\ arg.x = List(<<S(0), S(0)>>)
    /\ ret.value.rms = Sqrt(0, 1)
    /\ ret.value.crest_factor = None

----------------------------------------------------------------------------
(* C19 *)

\* The bronze iteration of session s with budget b, over a well-formed
\* location and with no call failing.
BronzeIteration(s, b) ==
    /\ BronzeStep(b)
    /\ Head(queue).id = s
    /\ parse_s3_url(session[s].raw_file_path)
    /\ BronzeRes(b).exc # "ConnectionError"

\* An object of s yields no row, and every other object has seq and t0.
SomeEmptyRestGood(s) ==
    /\ \E o \in objstore[s] : o.records = <<>>
    /\ \A o \in objstore[s] : o.records # <<>> => o.has_seq_t0

\* C19: with no object under the prefix the iteration returns without an
\* exception, the session has no frame afterwards, its row is unchanged, and
\* a bronze main() started then selects it again; an object without a row
\* is skipped without an exception, whether or not it has the seq and t0
\* columns, and the frames of the other objects are all loaded.
C19_EmptyResults ==
    [][\A s \in SIDs, b \in Budgets : BronzeIteration(s, b) =>
          /\ objstore[s] = {} =>
                /\ BronzeRes(b).exc = "none"
                /\ BronzeRes(b).total_rows = 0
                /\ RawOf(s)' = {}
                /\ session'[s] = session[s]
                /\ \E i \in DOMAIN fetch_uningested_sessions(
                                     sync_bronze_status_from_raw(session', raw')) :
                       fetch_uningested_sessions(
                           sync_bronze_status_from_raw(session', raw'))[i].id = s
          /\ SomeEmptyRestGood(s) =>
                /\ BronzeRes(b).exc = "none"
                /\ {r.frame_seq : r \in RawOf(s)'} = {r.seq : r \in AllRecords(s)}
                /\ BronzeRes(b).total_rows = Cardinality(AllRecords(s))]_vars

\* The running bronze batch, in which no iteration raised, has iterated
\* session 1, which has no object, no frame and no marker, and is about to
\* iterate session 2, whose first object is empty and has no columns.
C19_Witness ==
    /\ phase = "bronze" /\ clean
    /\ 1 \notin BronzeQueueIds
    /\ parse_s3_url(session[1].raw_file_path)
    /\ objstore[1] = {} /\ RawOf(1) = {}
    /\ session[1].bronze_done_at = Null
    /\ 2 \in BronzeQueueIds
    /\ objstore[2] = EmptyThenNew

----------------------------------------------------------------------------
(* C20 *)

\* The non-empty objects of s that lack seq or t0.
BadObjects(s) == {o \in objstore[s] : o.records # <<>> /\ ~o.has_seq_t0}

\* The sequence numbers in the objects of s sorted before its first
\* malformed object.
SeqsBeforeBad(s) ==
    LET bad == Min({o.object_name : o \in BadObjects(s)})
    IN  UNION {{r.seq : r \in Range(o.records)} :
                   o \in {x \in objstore[s] : x.object_name < bad}}

\* C20: when a non-empty object of the session lacks seq or t0, the
\* iteration raises the schema error; the frames of the session are then
\* those of the objects sorted before that object, none of that object and
\* none of a later one; the session row is unchanged; and main() goes on to
\* the next session of the batch.
C20_SchemaError ==
    [][\A s \in SIDs, b \in Budgets :
          (BronzeIteration(s, b) /\ BadObjects(s) # {}) =>
              /\ BronzeRes(b).exc = "RuntimeError"
              /\ {r.frame_seq : r \in RawOf(s)'} = SeqsBeforeBad(s)
              /\ session'[s] = session[s]
              /\ queue' = Tail(queue)
              /\ phase' = IF Tail(queue) = <<>> THEN "idle" ELSE "bronze"]_vars

\* The running bronze batch has raised the schema error for session 1, whose
\* first object is malformed and second is good; session 1 has no frame and
\* no marker, and the batch is about to iterate session 2.
C20_Witness ==
    /\ phase = "bronze" /\ ~clean
    /\ hist[1] = "failed"
    /\ objstore[1] = BadThenGood
    /\ RawOf(1) = {}
    /\ session[1].bronze_done_at = Null
    /\ BronzeQueueIds = {2}

----------------------------------------------------------------------------
(* C21 *)

\* C21: a call of process_one_session of frames_to_features.py that returns
\* without an exception ends in one of three ways: the session has no frame,
\* and no feature row is written and the session row is unchanged; the
\* session has frames and no feature row was written, and the session row is
\* unchanged; at least one feature row was written, and feature_done_at is
\* set.  The second way never happens: every frame yields three rows.
C21_EndStates ==
    [][(CallProcessOneSession /\ ret'.value.exc = "none") =>
          LET frames == {r \in raw : r.session_id = 1}
              total == ret'.value.total_rows
          IN  /\ \/ /\ frames = {}
                    /\ total = 0
                    /\ session' = session
                 \/ /\ frames # {}
                    /\ total = 0
                    /\ session' = session
                 \/ /\ total > 0
                    /\ session'[1].feature_done_at # Null
              /\ frames = {} => total = 0 /\ session' = session
              /\ frames # {} => total = 3 * Cardinality(frames)
              /\ total > 0 => session'[1].feature_done_at # Null]_vars

\* The call returned for a session without a frame whose flag is set: its
\* old feature rows are deleted, nothing is written, no marker is changed.
C21_Witness ==
    /\ arg.fn = "process_one_session" /\ ret.returned
    /\ ret.value.exc = "none"
    /\ raw = {}
    /\ arg.x.row.force_reprocess
    /\ ret.value.total_rows = 0
    /\ session[1].feature_done_at = Null
    /\ session[1].force_reprocess

----------------------------------------------------------------------------
(* C22 *)

\* The number of samples of an array column (0 for NULL).
ArrayLen(col) == IF col.is_none THEN 0 ELSE Len(col.items)

\* C22 as claimed: every row of raw.vibration_frame has
\* len(ax) = len(ay) = len(az) = samples_per_frame.
C22_AsClaimed ==
    \A r \in raw :
        /\ ArrayLen(r.ax) = r.samples_per_frame
        /\ ArrayLen(r.ay) = r.samples_per_frame
        /\ ArrayLen(r.az) = r.samples_per_frame

\* What of C22 holds: samples_per_frame is the length of ax.
C22_LengthOfAx ==
    \A r \in raw : ArrayLen(r.ax) = r.samples_per_frame

----------------------------------------------------------------------------
(* C23 *)

\* Session s has an s3 location, and its objects hold at least one frame,
\* frames only, with distinct sequence numbers.
Completable(s) ==
    /\ parse_s3_url(session[s].raw_file_path)
    /\ DistinctFrames(s)
    /\ CountRecords(objstore[s]) >= 1

\* Both stages of s are done.
BothDone(s) ==
    session[s].bronze_done_at # Null /\ session[s].feature_done_at # Null

\* Both stages of s are done and stay so over the step, and no reprocess is
\* requested before or after it.
Settled(s) ==
    /\ BothDone(s)
    /\ ~session[s].force_reprocess
    /\ ~session'[s].force_reprocess

----------------------------------------------------------------------------
(* C24 *)

\* The rows a load of the current objects of the head of the bronze queue
\* can write.
LoadableRows ==
    UNION {Range(OutRows(Head(queue), o)) : o \in objstore[Head(queue).id]}

\* C24: an iteration with force_reprocess = TRUE whose first call fails
\* deletes nothing and writes nothing; otherwise the delete commits first:
\* the rows of the session afterwards are rows this run wrote (none when it
\* wrote none), and no old row stands in the way of an INSERT of a recording
\* with distinct sequence numbers.  The rows of the other sessions and the
\* other stage's table are unchanged.  An iteration with force_reprocess =
\* FALSE deletes no row.
C24_DeleteBeforeRedo ==
    [][\A s \in SIDs, b \in Budgets :
          /\ (BronzeStep(b) /\ Head(queue).id = s) =>
                /\ mart' = mart
                /\ raw' \ RawOf(s)' = raw \ RawOf(s)
                /\ IF Head(queue).force_reprocess
                   THEN /\ b = 0 => raw' = raw
                        /\ b >= 1 =>
                              /\ RawOf(s)' \subseteq LoadableRows
                              /\ BronzeRes(b).total_rows = 0 => RawOf(s)' = {}
                              /\ Cardinality(RawOf(s)') = BronzeRes(b).total_rows
                              /\ BronzeRes(b).exc # "IntegrityError"
                   ELSE raw \subseteq raw'
          /\ (FeatureStep(b) /\ Head(queue).session_id = s) =>
                /\ raw' = raw
                /\ mart' \ MartOf(s)' = mart \ MartOf(s)
                /\ IF Head(queue).force_reprocess
                   THEN /\ b = 0 => mart' = mart
                        /\ b >= 1 =>
                              /\ MartOf(s)' \subseteq ExtractFromScratch(s)
                              /\ FeatureRes(b).total_rows = 0 => MartOf(s)' = {}
                              /\ Cardinality(MartOf(s)') = FeatureRes(b).total_rows
                              /\ FeatureRes(b).exc # "IntegrityError"
                   ELSE mart \subseteq mart']_vars

\* A forced bronze iteration has deleted the frames of a session that was
\* done and has written none, while the feature rows of that session and
\* the frames of the other session are still there.
C24_Witness ==
    \E s \in SIDs :
        /\ session[s].force_reprocess
        /\ session[s].bronze_done_at # Null
        /\ session[s].feature_done_at # Null
        /\ RawOf(s) = {}
        /\ MartOf(s) # {}
        /\ \E o \in SIDs : o # s /\ RawOf(o) # {} /\ MartOf(o) # {}

----------------------------------------------------------------------------
(* C25 *)

\* C25 as claimed: after a bronze iteration with force_reprocess = TRUE
\* raised, and until a bronze iteration of the session commits the marker,
\* force_reprocess is TRUE and the session matches the bronze selection,
\* whatever batches run in between.
C25_AsClaimed ==
    \A s \in SIDs :
        hist[s] = "redo_failed" =>
            /\ session[s].force_reprocess
            /\ BronzeCandidate(session[s])

\* What of C25 holds: the same as long as the failed reload left the
\* session without a frame; and no bronze batch clears the flag of such a
\* session without loading it.
C25_WithoutFrames ==
    \A s \in SIDs :
        (hist[s] = "redo_failed" /\ RawOf(s) = {}) =>
            /\ session[s].force_reprocess
            /\ BronzeCandidate(session[s])

----------------------------------------------------------------------------
(* C26 *)

\* C26 as claimed: a session whose bronze marker is set and whose flag is
\* FALSE has a frame, and a session whose feature marker is set and whose
\* flag is FALSE has a feature row.
C26_AsClaimed ==
    \A s \in SIDs :
        ~session[s].force_reprocess =>
            /\ session[s].bronze_done_at # Null => RawOf(s) # {}
            /\ session[s].feature_done_at # Null => MartOf(s) # {}

\* What of C26 holds: the bronze half.
C26_BronzeHalf ==
    \A s \in SIDs :
        (~session[s].force_reprocess /\ session[s].bronze_done_at # Null)
            => RawOf(s) # {}

----------------------------------------------------------------------------
(* C27 *)

\* A set feature marker implies a set bronze marker.
FeatureImpliesBronze ==
    \A s \in SIDs :
        session[s].feature_done_at # Null => session[s].bronze_done_at # Null

\* C27: no step sets a marker that is not NULL back to NULL, and in every
\* state a session whose feature_done_at is set has bronze_done_at set.
C27_MarkerMonotonicity ==
    /\ []FeatureImpliesBronze
    /\ [][\A s \in SIDs :
              /\ session[s].bronze_done_at # Null => session'[s].bronze_done_at # Null
              /\ session[s].feature_done_at # Null => session'[s].feature_done_at # Null]_vars

\* A forced bronze reload has failed and left the session without a frame;
\* both of its markers are still set.
C27_Witness ==
    \E s \in SIDs :
        /\ hist[s] = "redo_failed"
        /\ RawOf(s) = {}
        /\ session[s].bronze_done_at # Null
        /\ session[s].feature_done_at # Null

----------------------------------------------------------------------------
(* C28 *)

\* list_session_objects and sorted() have returned.
ReturnedListing == arg.fn = "list_session_objects" /\ ret.returned

\* The returned names are in ascending order.
Ascending(names) ==
    \A i, j \in 1..Len(names) : i < j => StrLess(names[i], names[j])

\* The name has a "/" after the prefix.
BelowPrefix(name, prefix) ==
    \E i \in (Len(prefix) + 1)..Len(name) : name[i] = "/"

RowsOfFirst(j) ==
    UNION {Range(OutRows(arg.x.row, o)) :
               o \in {x \in objstore[1] :
                         Cardinality({y \in objstore[1] :
                                          y.object_name < x.object_name}) < j}}

\* The object of session 1 that has j objects before it.
ObjectAt(j) ==
    CHOOSE x \in objstore[1] :
        Cardinality({y \in objstore[1] : y.object_name < x.object_name}) = j

----------------------------------------------------------------------------
(* C29 *)

\* The ids of the candidates still to be processed, in queue order.
QueueIdSeq ==
    [i \in 1..Len(queue) |->
        IF phase = "bronze" THEN queue[i].id ELSE queue[i].session_id]

\* The candidates still to be processed are in strictly ascending id order.
QueueAscending ==
    \A i, j \in 1..Len(queue) : i < j => QueueIdSeq[i] < QueueIdSeq[j]

\* C29: the candidates of a running batch are in strictly ascending id
\* order; once selected, the list changes only by an iteration removing its
\* head, whatever is written to the session table meanwhile; and an
\* iteration writes the rows and the session row of its own session only,
\* so that all writes for a session precede those for the next.
C29_SequentialOrder ==
    /\ []QueueAscending
    /\ [][/\ phase # "idle" =>
              /\ queue' = queue \/ queue' = Tail(queue)
              /\ queue' = queue => (raw' = raw /\ mart' = mart)
          /\ \A b \in Budgets :
                /\ BronzeStep(b) =>
                      queue' = Tail(queue) /\ OthersUntouched(Head(queue).id)
                /\ FeatureStep(b) =>
                      queue' = Tail(queue) /\ OthersUntouched(Head(queue).session_id)]_vars

\* A bronze batch that selected both sessions has loaded session 1 and has
\* not yet touched session 2, the only candidate left.
C29_Witness ==
    /\ phase = "bronze"
    /\ QueueIdSeq = <<2>>
    /\ start[1] = Null
    /\ hist[1] = "loaded"
    /\ RawOf(1) # {}
    /\ objstore[2] # {}
    /\ RawOf(2) = {}

----------------------------------------------------------------------------
(* C30 *)

\* The session table keeps its records, the records of every session but s
\* are as they were, and the record of s differs in the given columns at
\* most.
SessionFrame(s, columns) ==
    /\ DOMAIN session' = DOMAIN session
    /\ \A o \in DOMAIN session \ {s} : session'[o] = session[o]
    /\ DOMAIN session'[s] = DOMAIN session[s]
    /\ \A column \in DOMAIN session[s] \ columns :
          session'[s][column] = session[s][column]

\* C30: an iteration of the bronze stage changes at most the frame rows of
\* its session and that session's bronze_done_at and force_reprocess; an
\* iteration of the feature stage changes at most the feature rows of its
\* session and that session's feature_done_at and force_reprocess; neither
\* changes another column or another session's record, removes a session
\* record, or writes the table of the other stage.
C30_StageFrame ==
    [][\A b \in Budgets :
          /\ BronzeStep(b) =>
                /\ mart' = mart
                /\ \A o \in SIDs \ {Head(queue).id} : RawOf(o)' = RawOf(o)
                /\ SessionFrame(Head(queue).id, {"bronze_done_at", "force_reprocess"})
          /\ FeatureStep(b) =>
                /\ raw' = raw
                /\ \A o \in SIDs \ {Head(queue).session_id} : MartOf(o)' = MartOf(o)
                /\ SessionFrame(Head(queue).session_id,
                                {"feature_done_at", "force_reprocess"})]_vars

\* A forced reload of session 1 has replaced its frame rows and set its
\* marker while the feature rows and the feature marker of an earlier run
\* are still there.
C30_Witness ==
    /\ hist[1] = "loaded"
    /\ session[1].bronze_done_at # Null
    /\ ~session[1].force_reprocess
    /\ RawOf(1) # {}
    /\ MartOf(1) # {}
    /\ session[1].feature_done_at # Null

----------------------------------------------------------------------------
(* C31 *)

\* process_one_session of bronze_to_silver.py is called for a session whose
\* location does not have the s3 scheme.
CalledWithoutS3 ==
    /\ arg.fn = "bronze_process_one_session"
    /\ Scheme(arg.x.row.raw_file_path) # "s3"

\* C31: called for a session whose location does not have the s3 scheme,
\* process_one_session raises ValueError (or the error of the forced delete)
\* having made no call but the forced delete, so before any listing or
\* fetch; it inserts no frame row and leaves the marker; when
\* force_reprocess is FALSE the frame table and the session table are as
\* they were.
C31_SchemeCheck ==
    [][(CalledWithoutS3 /\ CallBronzeProcessOneSession) =>
          LET forced == arg.x.row.force_reprocess
              res == ret'.value
          IN  /\ res.exc = IF forced /\ arg.x.budget = 0
                           THEN "ConnectionError" ELSE "ValueError"
              /\ arg.x.budget - res.budget = IF forced /\ arg.x.budget > 0 THEN 1 ELSE 0
              /\ res.total_rows = 0
              /\ raw' \subseteq raw
              /\ session'[1].bronze_done_at = session[1].bronze_done_at
              /\ ~forced => (raw' = raw /\ session' = session)]_vars

\* The call for an unflagged session with an http location and two
\* objects in the store has raised ValueError.
C31_Witness ==
    /\ CalledWithoutS3
    /\ ~arg.x.row.force_reprocess
    /\ objstore[1] = TwoGood
    /\ ret.returned
    /\ ret.value.exc = "ValueError"
    /\ raw = {}
    /\ session[1].bronze_done_at = Null

----------------------------------------------------------------------------
(* C32 *)

\* The response of the last get_object is closed and its connection
\* released.
Released == resp.bound => (resp.closed /\ resp.released)

\* C32: whenever no call of read_jsonl_from_minio is running, the response
\* the last call obtained is closed and its connection released, whether
\* its read returned or raised; so every get_object, for the next object or
\* the next session, starts with no response open.
C32_ResponseRelease ==
    /\ [](pc.line = "none" => Released)
    /\ [][\A ok \in BOOLEAN : GetObject(ok) => Released]_vars

\* A call whose read raised has ended with its response closed and released.
C32_Witness ==
    /\ pc = [line |-> "none", exc |-> "ReadTimeoutError"]
    /\ resp.bound
    /\ resp.closed
    /\ resp.released

----------------------------------------------------------------------------
(* C33 *)

\* The frame rows the iteration for the head of the bronze queue wrote: all
\* the rows of the session once the forced delete ran, the new rows else.
FramesWritten(b) ==
    IF Head(queue).force_reprocess /\ b > 0
    THEN {r \in raw' : r.session_id = Head(queue).id}
    ELSE raw' \ raw

\* The feature rows the iteration for the head of the feature queue wrote.
FeaturesWritten(b) ==
    IF Head(queue).force_reprocess /\ b > 0
    THEN {f \in mart' : f.session_id = Head(queue).session_id}
    ELSE mart' \ mart

\* The feature rows of one frame agree on timestamp and metadata.
AxesAgree ==
    \A f, g \in mart :
        (f.session_id = g.session_id /\ f.frame_seq = g.frame_seq) =>
            /\ f.t0_utc = g.t0_utc
            /\ f.device_id = g.device_id
            /\ f.task_type = g.task_type

\* C33: the rows of a bronze batch are selected with the device_id and
\* metadata the session has then and stay as selected while the batch runs;
\* every frame row an iteration writes carries the session_id, device_id
\* and metadata of its selected row; every feature row an iteration writes
\* carries the t0_utc, device_id and metadata of the frame row with its
\* session_id and frame_seq, whatever the session record says meanwhile;
\* and the feature rows of one frame agree on timestamp and metadata.
C33_MetadataProvenance ==
    /\ []AxesAgree
    /\ [][/\ BronzeMain =>
              \A i \in 1..Len(queue') :
                  /\ queue'[i].device_id = session'[queue'[i].id].device_id
                  /\ queue'[i].task_type = session'[queue'[i].id].task_type
          /\ (phase = "bronze" /\ phase' = "bronze") =>
                  (queue' = queue \/ queue' = Tail(queue))
          /\ \A b \in Budgets :
                /\ BronzeStep(b) =>
                      \A r \in FramesWritten(b) :
                          /\ r.session_id = Head(queue).id
                          /\ r.device_id = Head(queue).device_id
                          /\ r.task_type = Head(queue).task_type
                /\ FeatureStep(b) =>
                      \A f \in FeaturesWritten(b) :
                          \E r \in raw :
                              /\ r.session_id = f.session_id
                              /\ r.frame_seq = f.frame_seq
                              /\ f.session_id = Head(queue).session_id
                              /\ f.t0_utc = r.t0_utc
                              /\ f.device_id = r.device_id
                              /\ f.task_type = r.task_type]_vars

\* Session 1 was relabelled after its frames were loaded: its frame rows
\* and the feature rows computed from them carry the metadata selected for
\* the load, not the metadata the session record has now.
C33_Witness ==
    /\ RawOf(1) # {}
    /\ MartOf(1) # {}
    /\ session[1].feature_done_at # Null
    /\ \A r \in RawOf(1) : r.task_type # session[1].task_type
    /\ \A f \in MartOf(1) : f.task_type # session[1].task_type

====
